---- MODULE Spec2Model ----
(***************************************************************************)
(* Model of the lucendex indexer (backend/cmd/indexer/main.go): the        *)
(* startup sequence of main, the gap classification, the background        *)
(* backfill goroutine, the live select loop and processLedger, run against *)
(* a store and a ledger source whose code is outside the repository part   *)
(* at hand and is modelled from their documented contracts.                *)
(***************************************************************************)
EXTENDS Integers, Sequences, FiniteSets, TLC

VARIABLES
    head,          \* node: index of the latest validated (closed) ledger
    subscribed,    \* live client: Subscribe() has succeeded
    ledgerChan,    \* live client: LedgerChan(), queue of delivered ledger indices
    lastDelivered, \* history: highest index ever put on LedgerChan(), 0 if none
    errPending,    \* live client: ErrorChan(), number of queued transport errors
    sigPending,    \* sigChan holds a SIGINT/SIGTERM
    mpc,           \* main: position in main()
    checkpoint,    \* main: result of db.GetLastCheckpoint
    currentLedger, \* main: serverInfo.Result.Info.ValidatedLedger.Seq
    startLedger,   \* flag -start-ledger
    gap,           \* main: gap
    missingCount,  \* main: missingCount
    outcome,       \* main: branch taken by the gap classification
    gapRuns,       \* number of times the gap classification ran
    backfillStart, \* main: backfillStart captured by the goroutine
    bpc,           \* backfill goroutine: position
    bfI,           \* backfill goroutine: loop variable i
    retry,         \* backfill goroutine: loop variable retry
    bfFetched,     \* indices FetchLedgerSync returned successfully, in order
    bfHanded,      \* indices the backfill loop handed to processLedger, in order
    pl,            \* per task: the running processLedger call
    checkpoints,   \* store: core.ledger_checkpoints (set of ledger indices)
    pools,         \* store: core.amm_pools
    offers,        \* store: core.orderbook_state
    applied,       \* history: side effects the store accepted, <<ledger, tx, kind>>
    nclosed,       \* number of ledgers the node closed since the process started
    faults,        \* number of injected fetch/store failures so far
    snap,          \* harness: store contents saved between two calls
    liveTaken,     \* history: indices the main loop received from LedgerChan(), in order
    appliedAgain,  \* history: side effects the store accepted a second time
    everSaved,     \* history: indices SaveCheckpoint has ever stored
    runs,          \* number of the current process run
    owed,          \* history: backfill range of earlier runs left without checkpoint
    audit,         \* connection audit: the caller of LogConnectionEvent and the store
    sd             \* stall_detector.sh: the script's variables and its position

vars == <<head, subscribed, ledgerChan, lastDelivered, errPending, sigPending, mpc,
          checkpoint, currentLedger, startLedger, gap, missingCount, outcome,
          gapRuns, backfillStart, bpc, bfI,
          retry, bfFetched, bfHanded, pl, checkpoints, pools, offers, applied,
          nclosed, faults, snap, liveTaken, appliedAgain, everSaved, runs, owed,
          audit, sd>>

nodeVars  == <<head, nclosed, subscribed, ledgerChan, lastDelivered, errPending,
               sigPending>>
mainVars  == <<mpc, checkpoint, currentLedger, startLedger, gap, missingCount,
               outcome, gapRuns, backfillStart>>
bfVars    == <<bpc, bfI, retry, bfFetched, bfHanded>>
storeVars == <<checkpoints, pools, offers>>
histVars  == <<liveTaken, appliedAgain>>
runVars   == <<everSaved, runs, owed, audit, sd>>

----------------------------------------------------------------------------
(* Bounds of the model *)

\* last checkpoint of the previous run, when there is one
BaseCheckpoint == 1000
\* largest small gap (current - checkpoint) explored below the threshold
MaxGap == 3
\* ledgers the node closes while the process runs
MaxNew == 1
\* iterations of the backfill loop that are explored: the largest small gap's
\* missing count (larger ranges are walked that far)
MaxWalk == MaxGap - 1
\* injected fetch/store failures per run
MaxFaults == 1
\* ledgers the live client delivers a second time (reconnect replays)
MaxReplays == 1
\* ledgers the node closes in the runs of the live loop on its own
MaxFeed == MaxNew + 1
\* process runs: the first start and the restarts after an exit
MaxRuns == 2
\* calls of LogConnectionEvent one caller makes
MaxAuditCalls == 2
\* stall detector: largest DUR, INTERVAL and STALL_SECONDS drawn, highest ledger
\* sequence the node reports, longest time a server_info call takes (seconds)
MaxDur == 4
MaxInterval == 2
MaxStall == 4
MaxSeq == 2
MaxRpcSeconds == 1
\* first and last ledger of the end-to-end live scenario
E2EFirst == 100
E2ELast == 105

(* Program constants *)

smallGapThreshold == 1000
MaxFetchAttempts == 3
\* a call that takes longer counts as blocked (milliseconds)
BlockLimitMs == 100

\* uint64 arithmetic wraps; the word is narrowed to 30 bits, far above
\* every index of the model
Uint64Modulus == 2^30

Tasks == {"live", "bf"}

----------------------------------------------------------------------------
(* Ledgers and transactions (xrpl.LedgerResponse, xrpl.Transaction) *)

AMMTypes == {"AMMCreate", "AMMDeposit", "AMMWithdraw"}
PoolIds  == {"p1"}
OfferIds == {"o1", "o2", "o3"}

Tx(type, key, flaw) == [TransactionType |-> type, key |-> key, flaw |-> flaw]

\* The chain is immutable: the content of a ledger is a function of its index.
\* An offer id stands for (account, sequence): one transaction creates it.
LedgerTxns(i) ==
    CASE i % 5 = 0 -> << Tx("Payment", "-", "none") >>
      [] i % 5 = 1 -> << Tx("AMMCreate", "p1", "none"),
                         Tx("AMMDeposit", "p1", "malformed"),
                         Tx("OfferCancel", "o2", "malformed"),
                         Tx("OfferCreate", "o1", "none") >>
      [] i % 5 = 2 -> << Tx("OfferCancel", "o1", "none"), Tx("AMMDeposit", "p1", "none") >>
      [] i % 5 = 3 -> << Tx("AMMWithdraw", "p1", "malformed"),
                         Tx("OfferCancel", "o1", "malformed"),
                         Tx("OfferCreate", "o2", "nonnumeric") >>
      [] OTHER     -> << Tx("OfferCreate", "o3", "none"), Tx("OfferCancel", "o3", "none"),
                         Tx("AMMWithdraw", "p1", "none") >>

----------------------------------------------------------------------------
(* Transaction parsers: pure functions of (transaction, ledger index) *)

\* parser.AMMParser.ParseTransaction: (pool, nil) | (nil, nil) | (nil, err)
AMMParse(tx, idx) ==
    IF tx.TransactionType \notin AMMTypes THEN [res |-> "nil"]
    ELSE IF tx.flaw = "malformed" THEN [res |-> "err"]
    ELSE [res |-> "pool", id |-> tx.key, reserve |-> idx, ledger |-> idx]

\* parser.OrderbookParser.ParseTransaction: (offer, nil) | (nil, nil) | (nil, err)
OrderbookParse(tx, idx) ==
    IF tx.TransactionType # "OfferCreate" THEN [res |-> "nil"]
    ELSE IF tx.flaw = "malformed" THEN [res |-> "err"]
    ELSE [res |-> "offer", id |-> tx.key, ledger |-> idx,
          status |-> IF tx.flaw = "nonnumeric" THEN "invalid_parse" ELSE "active"]

\* parser.OrderbookParser.ParseOfferCancel: (account, seq, err)
ParseOfferCancel(tx) ==
    IF tx.flaw = "malformed" THEN [res |-> "err"] ELSE [res |-> "ok", id |-> tx.key]

----------------------------------------------------------------------------
(* Store: row-level upserts keyed by primary key *)

NoPool  == [present |-> FALSE, reserve |-> 0, ledger |-> 0]
NoOffer == [status |-> "absent", ledger |-> 0]

\* store.UpsertAMMPool: INSERT ... ON CONFLICT (pool_id) DO UPDATE
UpsertAMMPool(tbl, pool) ==
    [tbl EXCEPT ![pool.id] = [present |-> TRUE, reserve |-> pool.reserve,
                              ledger |-> pool.ledger]]

\* store.UpsertOffer: INSERT ... ON CONFLICT (offer_id) DO UPDATE
UpsertOffer(tbl, offer) ==
    [tbl EXCEPT ![offer.id] = [status |-> offer.status, ledger |-> offer.ledger]]

\* store.CancelOffer: marks the matching active offer cancelled; no row, no change
CancelOffer(tbl, id, idx) ==
    IF tbl[id].status = "active"
    THEN [tbl EXCEPT ![id] = [status |-> "cancelled", ledger |-> idx]]
    ELSE tbl

\* store.SaveCheckpoint: INSERT ... ON CONFLICT (ledger_index) DO UPDATE
SaveCheckpoint(cps, idx) == cps \cup {idx}

\* store.GetCheckpoint: the row, or nil
GetCheckpoint(cps, idx) == idx \in cps

NilCheckpoint == [found |-> FALSE, LedgerIndex |-> 0]

SetMax(S) == CHOOSE x \in S : \A y \in S : y <= x

\* store.GetLastCheckpoint: the row with the highest ledger_index, or nil
GetLastCheckpoint(cps) ==
    IF cps = {} THEN NilCheckpoint ELSE [found |-> TRUE, LedgerIndex |-> SetMax(cps)]

\* The side effects the transactions of ledger idx call for.
RequiredEffects(idx) ==
    LET txs == LedgerTxns(idx) IN
    { <<idx, k, "pool">>   : k \in { j \in 1..Len(txs) : AMMParse(txs[j], idx).res = "pool" } }
    \cup
    { <<idx, k, "offer">>  : k \in { j \in 1..Len(txs) : OrderbookParse(txs[j], idx).res = "offer" } }
    \cup
    { <<idx, k, "cancel">> : k \in { j \in 1..Len(txs) :
                                       /\ txs[j].TransactionType = "OfferCancel"
                                       /\ ParseOfferCancel(txs[j]).res = "ok" } }

----------------------------------------------------------------------------
(* main: gap classification (main.go 124-208) *)

\* the difference is taken on signed integers
Uint64SubSigned(a, b) == a - b

\* uint64 subtraction
Uint64Sub(a, b) == (a - b) % Uint64Modulus

\* gap := currentLedger - uint64(checkpoint.LedgerIndex)
Gap(cur, cpIdx) == Uint64Sub(cur, cpIdx)

\* a gap of one ledger already counts as a gap
HasGapFromOne(g) == g > 0

\* if gap > 1
HasGap(g) == g > 1

\* missingCount := gap - 1
MissingCount(g) == Uint64Sub(g, 1)

\* the -start-ledger cutoff is ignored
BackfillStartNoClamp(cpIdx, start) == cpIdx + 1

\* backfillStart := uint64(checkpoint.LedgerIndex + 1), raised to *startLedger
BackfillStart(cpIdx, start) == IF cpIdx + 1 < start THEN start ELSE cpIdx + 1

\* the threshold itself already counts as a large gap
IsLargeGapInclusive(missing) == missing >= smallGapThreshold

\* if missingCount > smallGapThreshold
IsLargeGap(missing) == missing > smallGapThreshold

\* a range starting at the current ledger is not seen as empty
BeforeCutoffStrict(bs, cur) == bs > cur

\* else if backfillStart >= currentLedger
BeforeCutoff(bs, cur) == bs >= cur

\* the large-gap test is made on the range left after the -start-ledger clamp
ClassifyClampFirst(cp, cur, start) ==
    IF ~cp.found THEN "no_checkpoint"
    ELSE IF ~HasGap(Gap(cur, cp.LedgerIndex)) THEN "caught_up"
    ELSE IF BeforeCutoff(BackfillStart(cp.LedgerIndex, start), cur) THEN "before_cutoff"
    ELSE IF IsLargeGap(Uint64Sub(cur, BackfillStart(cp.LedgerIndex, start)))
         THEN "large_gap_skipped"
    ELSE "small_gap_backfilling"

Classify(cp, cur, start) ==
    IF ~cp.found THEN "no_checkpoint"
    ELSE IF ~HasGap(Gap(cur, cp.LedgerIndex)) THEN "caught_up"
    ELSE IF IsLargeGap(MissingCount(Gap(cur, cp.LedgerIndex))) THEN "large_gap_skipped"
    ELSE IF BeforeCutoff(BackfillStart(cp.LedgerIndex, start), cur) THEN "before_cutoff"
    ELSE "small_gap_backfilling"

\* the loop runs up to the newest ledger the node has validated
LoopContinuesToHead(i, cur) == i <= head

\* the loop also takes the current ledger
LoopContinuesInclusive(i, cur) == i <= cur

\* for i := backfillStart; i < currentLedger; i++
LoopContinues(i, cur) == i < cur

\* the loop advances by two
NextIndexByTwo(i) == i + 2

\* for ...; i++
NextIndex(i) == i + 1

\* a fourth attempt is made
RetryContinuesInclusive(r) == r <= MaxFetchAttempts

\* for retry := 0; retry < 3; retry++
RetryContinues(r) == r < MaxFetchAttempts

\* the loop gives the ledger up and goes on with the next one
AfterExhaustionSkip(i) == [bpc |-> "fetch", bfI |-> i + 1]

\* if err != nil { log ...STOPPING; return }: the goroutine ends at ledger i
AfterExhaustion(i) == [bpc |-> "aborted", bfI |-> i]

\* the ledger stream is subscribed to before the current ledger is read
MainNextSubscribeFirst(pc) ==
    CASE pc = "opendb"     -> "getcp"
      [] pc = "getcp"      -> "connect"
      [] pc = "connect"    -> "subscribe"
      [] pc = "subscribe"  -> "serverinfo"
      [] pc = "serverinfo" -> "gap"
      [] pc = "gap"        -> "loop"

\* the gap classification runs before Subscribe
MainNextSubscribeLate(pc) ==
    CASE pc = "opendb"     -> "getcp"
      [] pc = "getcp"      -> "connect"
      [] pc = "connect"    -> "serverinfo"
      [] pc = "serverinfo" -> "gap"
      [] pc = "gap"        -> "subscribe"
      [] pc = "subscribe"  -> "loop"

\* The order of the startup steps of main.
MainNext(pc) ==
    CASE pc = "opendb"     -> "getcp"
      [] pc = "getcp"      -> "connect"
      [] pc = "connect"    -> "serverinfo"
      [] pc = "serverinfo" -> "subscribe"
      [] pc = "subscribe"  -> "gap"
      [] pc = "gap"        -> "loop"

Alive == mpc = "loop"

IdleCall == [pc |-> "idle", idx |-> 0, txi |-> 0, ret |-> "none", writes |-> 0,
             lookupOk |-> TRUE]

----------------------------------------------------------------------------
(* Initial states: the store left by the previous run, the node's validated
   ledger and the -start-ledger flag *)

StartChoices == {1, BaseCheckpoint + 2, BaseCheckpoint + MaxGap + 1}

Scenarios ==
    { [cps |-> {BaseCheckpoint}, head |-> BaseCheckpoint + g, start |-> s] :
        g \in 0..MaxGap, s \in StartChoices }
    \cup { [cps |-> {BaseCheckpoint}, head |-> BaseCheckpoint + g, start |-> 1] :
             g \in {smallGapThreshold + 1, smallGapThreshold + 2} }
    \cup { [cps |-> {BaseCheckpoint}, head |-> BaseCheckpoint + smallGapThreshold + 2,
             start |-> BaseCheckpoint + smallGapThreshold] }
    \cup { [cps |-> {BaseCheckpoint}, head |-> BaseCheckpoint - 1, start |-> 1] }
    \cup { [cps |-> {}, head |-> BaseCheckpoint + 1, start |-> 1] }
    \cup { [cps |-> {50}, head |-> 200000, start |-> 100000] }

\* stall_detector.sh not started
NoStall == [pc |-> "off", dur |-> 0, interval |-> 0, stallSeconds |-> 0, now |-> 0,
            end |-> 0, lastSeq |-> -1, seq |-> 0, stalledFor |-> 0, result |-> "none",
            exit |-> 0, polls |-> 0, flat |-> 0, rose |-> FALSE, rpcFailed |-> FALSE]

\* the connection audit at rest: no caller, nothing logged
NoAudit == [pc |-> "none", db |-> "nil", service |-> "-", event |-> "-",
            raised |-> FALSE, elapsed |-> 0, queued |-> 0, rows |-> 0, calls |-> 0]

NoSnap == [taken |-> FALSE, ret |-> "none", checkpoints |-> {},
           pools |-> [p \in PoolIds |-> NoPool], offers |-> [o \in OfferIds |-> NoOffer]]

InitCommon ==
    /\ errPending = 0
    /\ sigPending = FALSE
    /\ nclosed = 0
    /\ checkpoint = NilCheckpoint
    /\ currentLedger = 0
    /\ gap = 0
    /\ missingCount = 0
    /\ outcome = "undecided"
    /\ gapRuns = 0
    /\ backfillStart = 0
    /\ bpc = "none"
    /\ bfI = 0
    /\ retry = 0
    /\ bfFetched = << >>
    /\ bfHanded = << >>
    /\ pl = [t \in Tasks |-> IdleCall]
    /\ faults = 0
    /\ snap = NoSnap
    /\ liveTaken = << >>
    /\ appliedAgain = {}
    /\ runs = 1
    /\ owed = {}

\* the process is started against one of the scenarios S
InitFrom(S) ==
    /\ InitCommon
    /\ mpc = "opendb"
    /\ subscribed = FALSE
    /\ ledgerChan = << >>
    /\ lastDelivered = 0
    /\ \E sc \in S :
         /\ head = sc.head
         /\ startLedger = sc.start
         /\ checkpoints = sc.cps
         \* the previous run applied what its checkpoints stand for
         /\ applied = UNION { RequiredEffects(n) : n \in sc.cps }
    /\ pools = [p \in PoolIds |-> NoPool]
    /\ offers = [o \in OfferIds |-> NoOffer]
    /\ everSaved = checkpoints
    /\ audit = NoAudit
    /\ sd = NoStall

Init == InitFrom(Scenarios)

----------------------------------------------------------------------------
(* The node and the operating system *)

\* The node validates the next ledger; a subscribed client is notified.
Close(limit) ==
    /\ mpc \notin {"fatal", "stopped"}
    /\ nclosed < limit
    /\ head' = head + 1
    /\ nclosed' = nclosed + 1
    /\ ledgerChan' = IF subscribed THEN Append(ledgerChan, head + 1) ELSE ledgerChan
    /\ lastDelivered' = IF subscribed THEN head + 1 ELSE lastDelivered
    /\ UNCHANGED <<subscribed, errPending, sigPending, mainVars, bfVars, pl,
                   storeVars, applied, faults, snap, histVars, runVars>>

CloseLedger == Close(MaxNew)

\* A transport error surfaces on the live client's error channel.
TransportError ==
    /\ mpc = "loop"
    /\ errPending = 0
    /\ errPending' = 1
    /\ UNCHANGED <<head, nclosed, subscribed, ledgerChan, lastDelivered, sigPending, mainVars,
                   bfVars, pl, storeVars, applied, faults, snap, histVars, runVars>>

\* SIGINT/SIGTERM is delivered to sigChan.
Signal ==
    /\ mpc = "loop"
    /\ ~sigPending
    /\ sigPending' = TRUE
    /\ UNCHANGED <<head, nclosed, subscribed, ledgerChan, lastDelivered, errPending, mainVars,
                   bfVars, pl, storeVars, applied, faults, snap, histVars, runVars>>

----------------------------------------------------------------------------
(* main: startup (main.go 74-117) *)

\* the failure is logged and main goes on with its next step
OnStartupErrorContinue(pc) == MainNext(pc)

\* if err != nil { log.Fatalf(...) }: the process ends (76, 83, 92, 100, 108, 115)
OnStartupError(pc) == "fatal"

\* a startup step that only succeeds or ends the process (log.Fatal)
StartupStep(pc) ==
    /\ mpc = pc
    /\ \/ mpc' = MainNext(pc)
       \/ mpc' = OnStartupError(pc)

\* missing -db / store.NewStore
OpenDB ==
    /\ StartupStep("opendb")
    /\ UNCHANGED <<nodeVars, checkpoint, currentLedger, startLedger, gap, missingCount, outcome, gapRuns,
                   backfillStart, bfVars, pl, storeVars, applied, faults, snap, histVars, runVars>>

\* checkpoint, err := db.GetLastCheckpoint(ctx)
MainGetLastCheckpoint ==
    /\ mpc = "getcp"
    /\ \/ /\ mpc' = MainNext("getcp")
          /\ checkpoint' = GetLastCheckpoint(checkpoints)
       \/ /\ mpc' = OnStartupError("getcp")
          /\ UNCHANGED checkpoint
    /\ UNCHANGED <<nodeVars, currentLedger, startLedger, gap, missingCount, outcome, gapRuns,
                   backfillStart, bfVars, pl, storeVars, applied, faults, snap, histVars, runVars>>

\* client.Connect()
MainConnect ==
    /\ StartupStep("connect")
    /\ UNCHANGED <<nodeVars, checkpoint, currentLedger, startLedger, gap, missingCount, outcome, gapRuns,
                   backfillStart, bfVars, pl, storeVars, applied, faults, snap, histVars, runVars>>

\* serverInfo, err := client.GetServerInfo()
MainGetServerInfo ==
    /\ mpc = "serverinfo"
    /\ \/ /\ mpc' = MainNext("serverinfo")
          /\ currentLedger' = head
       \/ /\ mpc' = OnStartupError("serverinfo")
          /\ UNCHANGED currentLedger
    /\ UNCHANGED <<nodeVars, checkpoint, startLedger, gap, missingCount, outcome, gapRuns,
                   backfillStart, bfVars, pl, storeVars, applied, faults, snap, histVars, runVars>>

\* client.Subscribe()
MainSubscribe ==
    /\ mpc = "subscribe"
    /\ \/ /\ mpc' = MainNext("subscribe")
          /\ subscribed' = TRUE
       \/ /\ mpc' = OnStartupError("subscribe")
          /\ UNCHANGED subscribed
    /\ UNCHANGED <<head, nclosed, ledgerChan, lastDelivered, errPending, sigPending,
                   checkpoint, currentLedger, startLedger, gap, missingCount, outcome,
                   gapRuns, backfillStart,
                   bfVars, pl, storeVars, applied, faults, snap, histVars, runVars>>

\* a backfill is also launched when there is no checkpoint at all
LaunchesBackfillWithoutCheckpoint(out) ==
    out \in {"small_gap_backfilling", "no_checkpoint"}

\* go func() { ... }() stands in the last else branch only (146-201)
LaunchesBackfill(out) == out = "small_gap_backfilling"

\* if checkpoint != nil { gap := ...; if gap > 1 { ... go func() { ... }() } }
MainGapCheck ==
    /\ mpc = "gap"
    /\ mpc' = MainNext("gap")
    /\ gapRuns' = gapRuns + 1
    /\ outcome' = Classify(checkpoint, currentLedger, startLedger)
    /\ gap' = IF checkpoint.found THEN Gap(currentLedger, checkpoint.LedgerIndex) ELSE gap
    /\ IF checkpoint.found /\ HasGap(gap')
       THEN /\ missingCount' = MissingCount(gap')
            /\ backfillStart' = BackfillStart(checkpoint.LedgerIndex, startLedger)
       ELSE UNCHANGED <<missingCount, backfillStart>>
    /\ bpc' = IF LaunchesBackfill(outcome') THEN "connect" ELSE bpc
    /\ UNCHANGED <<nodeVars, checkpoint, currentLedger, startLedger, bfI, retry,
                   bfFetched, bfHanded, pl, storeVars, applied, faults, snap, histVars, runVars>>

----------------------------------------------------------------------------
(* processLedger (main.go 235-346), one step per store call *)

\* a store call or a fetch succeeds (TRUE) or fails (FALSE)
StoreOutcomes == IF faults < MaxFaults THEN {TRUE, FALSE} ELSE {TRUE}

Fault(ok) == IF ok \/ faults >= MaxFaults THEN faults ELSE faults + 1

StartCall(idx) == [pc |-> "guard", idx |-> idx, txi |-> 0, ret |-> "none", writes |-> 0,
                   lookupOk |-> TRUE]

\* a lookup that failed counts as "already processed"
AlreadyProcessedFailClosed(lookupOk, existing) == ~lookupOk \/ existing

\* the duplicate guard never skips
AlreadyProcessedNever(lookupOk, existing) == FALSE

\* if err == nil && existingCheckpoint != nil { return nil }
AlreadyProcessed(lookupOk, existing) == lookupOk /\ existing

\* an offer that failed to decode is dropped instead of stored
CallAtDropInvalid(idx, txi, ph) ==
    LET tx == LedgerTxns(idx)[txi] IN
    CASE ph = "amm"    -> AMMParse(tx, idx).res = "pool"
      [] ph = "offer"  -> /\ OrderbookParse(tx, idx).res = "offer"
                          /\ OrderbookParse(tx, idx).status # "invalid_parse"
      [] ph = "cancel" -> tx.TransactionType = "OfferCancel" /\ ParseOfferCancel(tx).res = "ok"

\* the transaction type is not looked at before the cancel is parsed and applied
CallAtAnyType(idx, txi, ph) ==
    LET tx == LedgerTxns(idx)[txi] IN
    CASE ph = "amm"    -> AMMParse(tx, idx).res = "pool"
      [] ph = "offer"  -> OrderbookParse(tx, idx).res = "offer"
      [] ph = "cancel" -> ParseOfferCancel(tx).res = "ok"

\* the store call, if any, that the transaction at txi makes in a phase of the
\* loop body: "amm" (282-294), "offer" (296-312), "cancel" (314-326)
CallAt(idx, txi, ph) ==
    LET tx == LedgerTxns(idx)[txi] IN
    CASE ph = "amm"    -> AMMParse(tx, idx).res = "pool"
      [] ph = "offer"  -> OrderbookParse(tx, idx).res = "offer"
      [] ph = "cancel" -> tx.TransactionType = "OfferCancel" /\ ParseOfferCancel(tx).res = "ok"

\* for _, tx := range ledger.Transactions: the first store call at or after phase
\* ph of transaction txi; parser errors and "not applicable" results are logged
\* and passed over; after the last transaction comes the checkpoint write
RECURSIVE NextPos(_, _, _)
NextPos(idx, txi, ph) ==
    IF txi > Len(LedgerTxns(idx)) THEN [pc |-> "save", txi |-> Len(LedgerTxns(idx))]
    ELSE IF CallAt(idx, txi, ph) THEN [pc |-> ph, txi |-> txi]
    ELSE IF ph = "amm" THEN NextPos(idx, txi, "offer")
    ELSE IF ph = "offer" THEN NextPos(idx, txi, "cancel")
    ELSE NextPos(idx, txi + 1, "amm")

\* a failed store call ends the transaction loop
AfterCallStopOnError(idx, txi, ph, ok) ==
    IF ~ok THEN [pc |-> "save", txi |-> Len(LedgerTxns(idx))]
    ELSE CASE ph = "amm"    -> NextPos(idx, txi, "offer")
           [] ph = "offer"  -> NextPos(idx, txi, "cancel")
           [] ph = "cancel" -> NextPos(idx, txi + 1, "amm")

\* where processLedger goes after the store call of phase ph of transaction txi:
\* the result ok of the call is logged and does not change the path
AfterCall(idx, txi, ph, ok) ==
    CASE ph = "amm"    -> NextPos(idx, txi, "offer")
      [] ph = "offer"  -> NextPos(idx, txi, "cancel")
      [] ph = "cancel" -> NextPos(idx, txi + 1, "amm")

\* the checkpoint is written before the transactions are looked at
FirstPosSave(idx) == [pc |-> "save", txi |-> 0]

\* entry of the transaction loop, after the guard and the continuity check
FirstPos(idx) == NextPos(idx, 1, "amm")

Goto(call, pos) == [call EXCEPT !.pc = pos.pc, !.txi = pos.txi]

\* existingCheckpoint, err := db.GetCheckpoint(ctx, int64(ledger.LedgerIndex))
PLGuard(t) ==
    /\ Alive
    /\ pl[t].pc = "guard"
    /\ \E ok \in StoreOutcomes :
         /\ faults' = Fault(ok)
         /\ IF AlreadyProcessed(ok, GetCheckpoint(checkpoints, pl[t].idx))
            THEN pl' = [pl EXCEPT ![t].pc = "ret", ![t].ret = "skipped",
                                  ![t].lookupOk = ok]
            ELSE IF pl[t].idx > 1
            THEN pl' = [pl EXCEPT ![t].pc = "prev", ![t].lookupOk = ok]
            ELSE pl' = [pl EXCEPT ![t] = Goto([@ EXCEPT !.lookupOk = ok],
                                              FirstPos(pl[t].idx))]
    /\ UNCHANGED <<nodeVars, mainVars, bfVars, storeVars, applied, snap, histVars, runVars>>

\* a ledger whose predecessor is not known to be checkpointed is not processed
AfterContinuityEnforced(lookupOk, prev, idx) ==
    IF lookupOk /\ prev THEN FirstPos(idx) ELSE [pc |-> "ret", txi |-> 0]

\* if err == nil && prevCheckpoint != nil { logVerbose(...) }: the result of the
\* lookup is logged and the transaction loop is entered in every case (252-260)
AfterContinuity(lookupOk, prev, idx) == FirstPos(idx)

\* prevCheckpoint, err := db.GetCheckpoint(ctx, int64(ledger.LedgerIndex-1))
PLPrev(t) ==
    /\ Alive
    /\ pl[t].pc = "prev"
    /\ \E ok \in StoreOutcomes :
         /\ faults' = Fault(ok)
         /\ pl' = [pl EXCEPT ![t] =
                     Goto(@, AfterContinuity(ok, GetCheckpoint(checkpoints, pl[t].idx - 1),
                                             pl[t].idx))]
    /\ UNCHANGED <<nodeVars, mainVars, bfVars, storeVars, applied, snap, histVars, runVars>>

\* pool, err := ammParser.ParseTransaction(...); db.UpsertAMMPool(ctx, pool)
PLAmm(t) ==
    /\ Alive
    /\ pl[t].pc = "amm"
    /\ LET idx  == pl[t].idx
           txi  == pl[t].txi
           pool == AMMParse(LedgerTxns(idx)[txi], idx)
       IN \E ok \in StoreOutcomes :
            /\ faults' = Fault(ok)
            /\ pools' = IF ok THEN UpsertAMMPool(pools, pool) ELSE pools
            /\ applied' = IF ok THEN applied \cup {<<idx, txi, "pool">>} ELSE applied
            /\ appliedAgain' = IF ok /\ <<idx, txi, "pool">> \in applied
                               THEN appliedAgain \cup {<<idx, txi, "pool">>}
                               ELSE appliedAgain
            /\ pl' = [pl EXCEPT ![t] = Goto([@ EXCEPT !.writes = @ + 1],
                                            AfterCall(idx, txi, "amm", ok))]
    /\ UNCHANGED <<nodeVars, mainVars, bfVars, checkpoints, offers, snap, liveTaken, runVars>>

\* offer, err := orderbookParser.ParseTransaction(...); db.UpsertOffer(ctx, offer)
PLOffer(t) ==
    /\ Alive
    /\ pl[t].pc = "offer"
    /\ LET idx   == pl[t].idx
           txi   == pl[t].txi
           offer == OrderbookParse(LedgerTxns(idx)[txi], idx)
       IN \E ok \in StoreOutcomes :
            /\ faults' = Fault(ok)
            /\ offers' = IF ok THEN UpsertOffer(offers, offer) ELSE offers
            /\ applied' = IF ok THEN applied \cup {<<idx, txi, "offer">>} ELSE applied
            /\ appliedAgain' = IF ok /\ <<idx, txi, "offer">> \in applied
                               THEN appliedAgain \cup {<<idx, txi, "offer">>}
                               ELSE appliedAgain
            /\ pl' = [pl EXCEPT ![t] = Goto([@ EXCEPT !.writes = @ + 1],
                                            AfterCall(idx, txi, "offer", ok))]
    /\ UNCHANGED <<nodeVars, mainVars, bfVars, checkpoints, pools, snap, liveTaken, runVars>>

\* the store is not asked to cancel
CancelCallSkipped(tbl, c, idx) == tbl

\* db.CancelOffer(ctx, account, seq, int64(ledger.LedgerIndex))
CancelCall(tbl, c, idx) == CancelOffer(tbl, c.id, idx)

\* account, seq, err := orderbookParser.ParseOfferCancel(txMap); db.CancelOffer(...)
PLCancel(t) ==
    /\ Alive
    /\ pl[t].pc = "cancel"
    /\ LET idx  == pl[t].idx
           txi  == pl[t].txi
           c    == ParseOfferCancel(LedgerTxns(idx)[txi])
       IN \E ok \in StoreOutcomes :
            /\ faults' = Fault(ok)
            /\ offers' = IF ok THEN CancelCall(offers, c, idx) ELSE offers
            /\ applied' = IF ok THEN applied \cup {<<idx, txi, "cancel">>} ELSE applied
            /\ appliedAgain' = IF ok /\ <<idx, txi, "cancel">> \in applied
                               THEN appliedAgain \cup {<<idx, txi, "cancel">>}
                               ELSE appliedAgain
            /\ pl' = [pl EXCEPT ![t] = Goto([@ EXCEPT !.writes = @ + 1],
                                            AfterCall(idx, txi, "cancel", ok))]
    /\ UNCHANGED <<nodeVars, mainVars, bfVars, checkpoints, pools, snap, liveTaken, runVars>>

\* the checkpoint is filed under the index of the ledger before
CheckpointIndexPrev(idx) == idx - 1

\* LedgerIndex: int64(ledger.LedgerIndex) (332)
CheckpointIndex(idx) == idx

\* the checkpoints of earlier ledgers are dropped when the new one is written
SaveCallPruning(cps, idx) == {CheckpointIndex(idx)}

\* db.SaveCheckpoint(ctx, checkpoint) (340): the only call by which main.go
\* changes the checkpoint table
SaveCall(cps, idx) == SaveCheckpoint(cps, CheckpointIndex(idx))

\* the error of the checkpoint write is logged and nil is returned
SaveResultSwallowed(ok) == "nil"

\* if err := db.SaveCheckpoint(...); err != nil { return err } ... return nil
SaveResult(ok) == IF ok THEN "nil" ELSE "err"

\* if err := db.SaveCheckpoint(ctx, checkpoint); err != nil { return err }
PLSave(t) ==
    /\ Alive
    /\ pl[t].pc = "save"
    /\ \E ok \in StoreOutcomes :
         /\ faults' = Fault(ok)
         /\ checkpoints' = IF ok THEN SaveCall(checkpoints, pl[t].idx) ELSE checkpoints
         /\ everSaved' = IF ok THEN everSaved \cup {CheckpointIndex(pl[t].idx)}
                                ELSE everSaved
         /\ pl' = [pl EXCEPT ![t].pc = "ret", ![t].ret = SaveResult(ok),
                             ![t].writes = @ + 1]
    /\ UNCHANGED <<nodeVars, mainVars, bfVars, pools, offers, applied, snap, histVars,
                   runs, owed, audit, sd>>

----------------------------------------------------------------------------
(* The backfill goroutine (main.go 151-201) *)

\* backfillClient.Connect()
BfConnect ==
    /\ mpc = "loop"
    /\ bpc = "connect"
    /\ \E ok \in BOOLEAN :
         /\ faults' = Fault(ok)
         /\ IF ok
            THEN /\ bfI' = backfillStart
                 /\ retry' = 0
                 /\ bpc' = IF LoopContinues(backfillStart, currentLedger)
                           THEN "fetch" ELSE "complete"
            ELSE /\ bpc' = "connfail"
                 /\ UNCHANGED <<bfI, retry>>
    /\ UNCHANGED <<nodeVars, mainVars, bfFetched, bfHanded, pl, storeVars, applied, snap, histVars, runVars>>

\* ledger, err = backfillClient.FetchLedgerSync(i), at most MaxFetchAttempts times,
\* then processLedger(ctx, db, ledger, ...)
BfFetch ==
    /\ mpc = "loop"
    /\ bpc = "fetch"
    /\ bfI < backfillStart + MaxWalk
    /\ \E ok \in BOOLEAN :
         /\ faults' = Fault(ok)
         /\ IF ok
            THEN /\ bfFetched' = Append(bfFetched, bfI)
                 /\ bfHanded' = Append(bfHanded, bfI)
                 /\ pl' = [pl EXCEPT !["bf"] = StartCall(bfI)]
                 /\ bpc' = "process"
                 /\ UNCHANGED <<retry, bfI>>
            ELSE /\ retry' = retry + 1
                 /\ IF RetryContinues(retry + 1)
                    THEN bpc' = "fetch" /\ bfI' = bfI
                    ELSE bpc' = AfterExhaustion(bfI).bpc /\ bfI' = AfterExhaustion(bfI).bfI
                 /\ UNCHANGED <<bfFetched, bfHanded, pl>>
    /\ UNCHANGED <<nodeVars, mainVars, storeVars, applied, snap, histVars, runVars>>

\* processLedger returned: count it, i++, test the loop condition
BfReturn ==
    /\ mpc = "loop"
    /\ bpc = "process"
    /\ pl["bf"].pc = "ret"
    /\ pl' = [pl EXCEPT !["bf"] = IdleCall]
    /\ bfI' = NextIndex(bfI)
    /\ retry' = 0
    /\ bpc' = IF LoopContinues(NextIndex(bfI), currentLedger) THEN "fetch" ELSE "complete"
    /\ UNCHANGED <<nodeVars, mainVars, bfFetched, bfHanded, storeVars, applied,
                   faults, snap, histVars, runVars>>

----------------------------------------------------------------------------
(* main: the select loop (main.go 216-231) *)

\* a case of the select is taken while processLedger is still running
SelectReachedAnytime(call) == TRUE

\* for { select { ... } }: the select is reached when the case taken before has
\* run to its end, processLedger included
SelectReached(call) == call.pc = "idle"

\* an error taken from the error channel or returned by processLedger ends
\* the process
AfterEventFatalOnError(ev) ==
    CASE ev = "signal" -> "stopped"
      [] ev \in {"error", "ledger_err"} -> "fatal"
      [] OTHER -> "loop"

\* where main is after the case body of an event: case <-sigChan returns
\* (221); the other two cases log and fall through to the next iteration
AfterEvent(ev) == IF ev = "signal" THEN "stopped" ELSE "loop"

\* case <-sigChan: return
LoopShutdown ==
    /\ mpc = "loop"
    /\ SelectReached(pl["live"])
    /\ sigPending
    /\ mpc' = AfterEvent("signal")
    /\ UNCHANGED <<nodeVars, checkpoint, currentLedger, startLedger, gap, missingCount, outcome, gapRuns,
                   backfillStart, bfVars, pl, storeVars, applied, faults, snap, histVars, runVars>>

\* case err := <-client.ErrorChan(): log
LoopError ==
    /\ mpc = "loop"
    /\ SelectReached(pl["live"])
    /\ errPending > 0
    /\ errPending' = errPending - 1
    /\ mpc' = AfterEvent("error")
    /\ UNCHANGED <<head, nclosed, subscribed, ledgerChan, lastDelivered, sigPending,
                   checkpoint, currentLedger, startLedger, gap, missingCount, outcome,
                   gapRuns, backfillStart,
                   bfVars, pl, storeVars, applied, faults, snap, histVars, runVars>>

\* the newest element is received first
ReceiveNewest(ch) == [val |-> ch[Len(ch)], rest |-> SubSeq(ch, 1, Len(ch) - 1)]

\* <-ch: a channel hands out its elements in the order they were sent
Receive(ch) == [val |-> Head(ch), rest |-> Tail(ch)]

\* case ledger := <-client.LedgerChan(): processLedger(ctx, db, ledger, ...)
LoopLedger ==
    /\ mpc = "loop"
    /\ SelectReached(pl["live"])
    /\ ledgerChan # << >>
    /\ ledgerChan' = Receive(ledgerChan).rest
    /\ pl' = [pl EXCEPT !["live"] = StartCall(Receive(ledgerChan).val)]
    /\ liveTaken' = Append(liveTaken, Receive(ledgerChan).val)
    /\ UNCHANGED <<head, nclosed, subscribed, lastDelivered, errPending, sigPending, mainVars,
                   bfVars, storeVars, applied, faults, snap, appliedAgain, runVars>>

\* processLedger returned to the loop: log the error, select again
LoopReturn ==
    /\ mpc = "loop"
    /\ pl["live"].pc = "ret"
    /\ pl' = [pl EXCEPT !["live"] = IdleCall]
    /\ mpc' = AfterEvent(IF pl["live"].ret = "err" THEN "ledger_err" ELSE "ledger_ok")
    /\ UNCHANGED <<nodeVars, checkpoint, currentLedger, startLedger, gap, missingCount,
                   outcome, gapRuns, backfillStart, bfVars, storeVars, applied, faults,
                   snap, histVars, runVars>>

----------------------------------------------------------------------------

processLedger ==
    \E t \in Tasks :
        \/ PLGuard(t)
        \/ PLPrev(t)
        \/ PLAmm(t)
        \/ PLOffer(t)
        \/ PLCancel(t)
        \/ PLSave(t)

Next ==
    \/ CloseLedger
    \/ TransportError
    \/ Signal
    \/ OpenDB
    \/ MainGetLastCheckpoint
    \/ MainConnect
    \/ MainGetServerInfo
    \/ MainSubscribe
    \/ MainGapCheck
    \/ BfConnect
    \/ BfFetch
    \/ BfReturn
    \/ LoopShutdown
    \/ LoopError
    \/ LoopLedger
    \/ LoopReturn
    \/ processLedger

Spec == Init /\ [][Next]_vars

----------------------------------------------------------------------------
(* processLedger on its own: the live loop is handed one ledger twice in a
   row, against any store contents *)

HarnessLedgers == {1} \cup ((BaseCheckpoint + 1)..(BaseCheckpoint + 5))

HarnessPools(idx) ==
    { [p \in PoolIds |-> row] :
        row \in {NoPool, [present |-> TRUE, reserve |-> idx - 1, ledger |-> idx - 1],
                 [present |-> TRUE, reserve |-> idx + 1, ledger |-> idx + 1]} }

HarnessOffers(idx) ==
    { [o \in OfferIds |-> IF o = "o1" THEN r1 ELSE IF o = "o2" THEN r2 ELSE NoOffer] :
        r1 \in {NoOffer, [status |-> "active", ledger |-> idx - 1],
                [status |-> "cancelled", ledger |-> idx - 1]},
        r2 \in {NoOffer, [status |-> "invalid_parse", ledger |-> idx - 1]} }

InitPL ==
    /\ InitCommon
    /\ mpc = "loop"
    /\ subscribed = TRUE
    /\ startLedger = 1
    /\ applied = {}
    /\ \E idx \in HarnessLedgers :
         /\ head = idx
         /\ lastDelivered = idx
         /\ ledgerChan = <<idx, idx>>
         /\ checkpoints \in SUBSET {idx - 1, idx}
         /\ pools \in HarnessPools(idx)
         /\ offers \in HarnessOffers(idx)
    /\ everSaved = checkpoints
    /\ audit = NoAudit
    /\ sd = NoStall

\* the first call returned: remember what it left in the store
HarnessReturn ==
    /\ mpc = "loop"
    /\ pl["live"].pc = "ret"
    /\ ~snap.taken
    /\ snap' = [taken |-> TRUE, ret |-> pl["live"].ret, checkpoints |-> checkpoints,
                pools |-> pools, offers |-> offers]
    /\ pl' = [pl EXCEPT !["live"] = IdleCall]
    /\ UNCHANGED <<nodeVars, mainVars, bfVars, storeVars, applied, faults, histVars, runVars>>

NextPL ==
    \/ LoopLedger
    \/ HarnessReturn
    \/ processLedger

SpecPL == InitPL /\ [][NextPL]_vars

----------------------------------------------------------------------------
(* The live loop on its own: the process has started up with no gap and runs
   its select loop while the node closes ledgers and the live client replays
   ledgers it already delivered *)

FeedClose == Close(MaxFeed)

\* every index the live client has put on LedgerChan() so far
Delivered ==
    { liveTaken[k] : k \in 1..Len(liveTaken) } \cup { ledgerChan[k] : k \in 1..Len(ledgerChan) }

\* number of deliveries so far that were replays
Replays == Len(liveTaken) + Len(ledgerChan) - nclosed

\* After a reconnect the live client delivers a ledger once more.
Redeliver ==
    /\ mpc = "loop"
    /\ subscribed
    /\ Replays < MaxReplays
    /\ \E i \in Delivered : ledgerChan' = Append(ledgerChan, i)
    /\ UNCHANGED <<head, nclosed, subscribed, lastDelivered, errPending, sigPending,
                   mainVars, bfVars, pl, storeVars, applied, faults, snap, histVars, runVars>>

\* main has run its startup against the store cps and the validated ledger h,
\* found no gap to backfill, and is on entry of its loop (203-214)
InitLoop(cps, h) ==
    /\ mpc = "loop"
    /\ subscribed = TRUE
    /\ ledgerChan = << >>
    /\ lastDelivered = 0
    /\ errPending = 0
    /\ sigPending = FALSE
    /\ nclosed = 0
    /\ head = h
    /\ startLedger = 1
    /\ checkpoint = GetLastCheckpoint(cps)
    /\ currentLedger = h
    /\ gap = 0
    /\ missingCount = 0
    /\ outcome = Classify(checkpoint, h, 1)
    /\ gapRuns = 1
    /\ backfillStart = 0
    /\ bpc = "none"
    /\ bfI = 0
    /\ retry = 0
    /\ bfFetched = << >>
    /\ bfHanded = << >>
    /\ pl = [t \in Tasks |-> IdleCall]
    /\ checkpoints = cps
    /\ pools = [p \in PoolIds |-> NoPool]
    /\ offers = [o \in OfferIds |-> NoOffer]
    /\ applied = UNION { RequiredEffects(n) : n \in cps }
    /\ faults = 0
    /\ snap = NoSnap
    /\ liveTaken = << >>
    /\ appliedAgain = {}
    /\ everSaved = checkpoints
    /\ runs = 1
    /\ owed = {}
    /\ audit = NoAudit
    /\ sd = NoStall

InitFeed == InitLoop({BaseCheckpoint}, BaseCheckpoint)

NextFeed ==
    \/ FeedClose
    \/ Redeliver
    \/ TransportError
    \/ Signal
    \/ LoopShutdown
    \/ LoopError
    \/ LoopLedger
    \/ LoopReturn
    \/ processLedger

SpecFeed == InitFeed /\ [][NextFeed]_vars

\* Scheduling of the live loop: a store call returns, so a running processLedger
\* takes its next step and returns to the loop; a select with several ready
\* cases picks one at random, so a case that is ready again and again is taken.
SpecFeedFair ==
    /\ SpecFeed
    /\ WF_vars(processLedger)
    /\ WF_vars(LoopReturn)
    /\ SF_vars(LoopShutdown)

----------------------------------------------------------------------------
(* The end-to-end live scenario: a first run, with no checkpoint in the store,
   is in its loop while the live feed delivers ledgers E2EFirst..E2ELast *)

E2ELedgers == E2EFirst..E2ELast

E2EClose == Close(E2ELast - E2EFirst + 1)

InitE2E == InitLoop({}, E2EFirst - 1)

NextE2E ==
    \/ E2EClose
    \/ TransportError
    \/ LoopError
    \/ LoopLedger
    \/ LoopReturn
    \/ processLedger

SpecE2E == InitE2E /\ [][NextE2E]_vars

----------------------------------------------------------------------------
(* Connection audit logging: a caller of store.LogConnectionEvent, as the
   tests of the store package call it *)

AuditServices == {"postgres", "rippled-ws", "rippled-http", "test"}
AuditEvents   == {"attempt", "success", "failure", "retry"}

\* the store's database handle: absent, reachable, or not answering
DbStates == {"nil", "up", "down"}

programVars == <<nodeVars, mainVars, bfVars, pl, storeVars, applied, faults, snap,
                 histVars, everSaved, runs, owed>>

\* the event is written in the caller's own thread: a nil handle is
\* dereferenced and a database that does not answer is waited for
LogConnectionEventSynchronous(db, service, event) ==
    [raised  |-> db = "nil",
     elapsed |-> IF db = "down" THEN BlockLimitMs + 1 ELSE 0,
     queued  |-> IF db = "up" THEN 1 ELSE 0]

\* store.LogConnectionEvent: hands the event to a background write and
\* returns; without a usable database the event is dropped silently
LogConnectionEvent(db, service, event) ==
    [raised  |-> FALSE,
     elapsed |-> 0,
     queued  |-> IF db = "up" THEN 1 ELSE 0]

\* store.LogConnectionEvent(service, event, attempt, err, durationMs, metadata)
AuditCall ==
    /\ audit.pc = "ready"
    /\ audit.calls < MaxAuditCalls
    /\ \E service \in AuditServices, event \in AuditEvents :
         LET r == LogConnectionEvent(audit.db, service, event) IN
         audit' = [audit EXCEPT !.pc = IF r.raised THEN "panicked" ELSE "returned",
                                !.service = service, !.event = event,
                                !.raised = r.raised, !.elapsed = r.elapsed,
                                !.queued = @ + r.queued, !.calls = @ + 1]
    /\ UNCHANGED <<programVars, sd>>

\* the background write reaches the connection_events table
AuditWrite ==
    /\ audit.queued > 0
    /\ audit' = [audit EXCEPT !.queued = @ - 1, !.rows = @ + 1]
    /\ UNCHANGED <<programVars, sd>>

\* the caller goes on: if duration > 100*time.Millisecond { t.Errorf(...) }
AuditCallerNext ==
    /\ audit.pc = "returned"
    /\ audit' = [audit EXCEPT !.pc = IF audit.elapsed > BlockLimitMs THEN "blocked"
                                      ELSE "ready"]
    /\ UNCHANGED <<programVars, sd>>

InitAudit ==
    /\ InitCommon
    /\ mpc = "opendb"
    /\ subscribed = FALSE
    /\ ledgerChan = << >>
    /\ lastDelivered = 0
    /\ head = BaseCheckpoint
    /\ startLedger = 1
    /\ checkpoints = {}
    /\ applied = {}
    /\ pools = [p \in PoolIds |-> NoPool]
    /\ offers = [o \in OfferIds |-> NoOffer]
    /\ everSaved = {}
    /\ audit \in { [NoAudit EXCEPT !.pc = "ready", !.db = d] : d \in DbStates }
    /\ sd = NoStall

NextAudit ==
    \/ AuditCall
    \/ AuditWrite
    \/ AuditCallerNext

SpecAudit == InitAudit /\ [][NextAudit]_vars

----------------------------------------------------------------------------
(* Restart: the process exits and is started again against the store the
   earlier run left *)

\* the range [backfillStart, currentLedger) of the backfill task of this run
BackfillRange ==
    IF bpc = "none" THEN {} ELSE backfillStart..(currentLedger - 1)

\* The process has exited (return from main at 221, or log.Fatal) and is
\* started again: main runs from the top; only the store, the flag and the node
\* outlive the process.
Restart ==
    /\ mpc \in {"stopped", "fatal"}
    /\ runs < MaxRuns
    /\ runs' = runs + 1
    /\ owed' = owed \cup (BackfillRange \ checkpoints)
    /\ mpc' = "opendb"
    /\ subscribed' = FALSE
    /\ ledgerChan' = << >>
    /\ errPending' = 0
    /\ sigPending' = FALSE
    /\ checkpoint' = NilCheckpoint
    /\ currentLedger' = 0
    /\ gap' = 0
    /\ missingCount' = 0
    /\ outcome' = "undecided"
    /\ gapRuns' = 0
    /\ backfillStart' = 0
    /\ bpc' = "none"
    /\ bfI' = 0
    /\ retry' = 0
    /\ bfFetched' = << >>
    /\ bfHanded' = << >>
    /\ pl' = [t \in Tasks |-> IdleCall]
    /\ liveTaken' = << >>
    /\ UNCHANGED <<head, nclosed, lastDelivered, startLedger, storeVars, applied,
                   faults, snap, appliedAgain, everSaved, audit, sd>>

\* a run with a small gap and no cutoff in the way
RestartScenarios ==
    { [cps |-> {BaseCheckpoint}, head |-> BaseCheckpoint + MaxGap, start |-> 1] }

InitRestart == InitFrom(RestartScenarios)

NextRestart ==
    \/ Next
    \/ Restart

SpecRestart == InitRestart /\ [][NextRestart]_vars

----------------------------------------------------------------------------
(* Properties *)

Max(a, b) == IF a >= b THEN a ELSE b

K == checkpoint.LedgerIndex

GapDecided == gapRuns > 0 /\ checkpoint.found

\* the live loop has checkpointed a ledger that closed after startup
LiveProgress ==
    /\ gapRuns > 0
    /\ lastDelivered > currentLedger
    /\ lastDelivered > K
    /\ lastDelivered \in checkpoints

NoBackfill ==
    /\ bpc = "none"
    /\ bfFetched = << >>
    /\ bfHanded = << >>
    /\ pl["bf"].pc = "idle"

\* every task is at rest and nothing is queued: only a new ledger can start work
Quiescent ==
    /\ mpc = "loop"
    /\ bpc = "complete"
    /\ ledgerChan = << >>
    /\ pl["live"].pc = "idle"
    /\ pl["bf"].pc = "idle"

\* C1: No ledger is missed. In a run from a checkpoint K with a small gap to the
\* current ledger (1 < C-K, C-K-1 <= 1000, start-ledger <= K+1), without any
\* failed fetch or store call, once the backfill is complete and the live loop
\* has drained its feed, every index in K+1..L has a checkpoint, L being the
\* highest index the live feed delivered.
C1_NoLedgerMissed ==
    ( /\ GapDecided
      /\ 1 < currentLedger - K
      /\ currentLedger - K - 1 <= smallGapThreshold
      /\ startLedger <= K + 1
      /\ faults = 0
      /\ Quiescent
      /\ lastDelivered > 0 )
    => \A i \in (K + 1)..lastDelivered : i \in checkpoints

\* C2: Checkpoint invariant. Whenever a checkpoint exists for ledger N, every
\* pool upsert, offer upsert and offer cancel the transactions of N call for has
\* been applied to the store, also when store calls fail.
C2_CheckpointInvariant ==
    \A n \in checkpoints : RequiredEffects(n) \subseteq applied

\* C3: Duplicate guard. A processLedger call whose ledger already has a
\* checkpoint, and whose lookup succeeds, returns nil from the guard without a
\* single store write and leaves the store as it was.
C3_DuplicateGuard ==
    [][ \A t \in Tasks :
          ( /\ pl[t].pc = "guard"
            /\ pl'[t].pc # "guard"
            /\ pl[t].idx \in checkpoints
            /\ pl'[t].lookupOk )
          => /\ pl'[t].pc = "ret"
             /\ pl'[t].ret = "skipped"
             /\ pl'[t].writes = 0
             /\ UNCHANGED <<checkpoints, pools, offers, applied>> ]_vars

C3_Witness ==
    /\ pl["live"].pc = "ret"
    /\ pl["live"].ret = "skipped"
    /\ pl["live"].idx \in checkpoints

SecondReturned == snap.taken /\ pl["live"].pc = "ret"

SameAsAfterFirst ==
    /\ checkpoints = snap.checkpoints
    /\ pools = snap.pools
    /\ offers = snap.offers

C5_SubscribeBeforeBackfill ==
    ( \/ mpc = "gap"
      \/ gapRuns > 0
      \/ outcome # "undecided"
      \/ bpc # "none"
      \/ bfFetched # << >> )
    => subscribed

C5_Witness == subscribed /\ bpc = "process" /\ Len(bfFetched) = 1

\* C6: Gap arithmetic. With checkpoint K <= current C: gap = C - K; a gap of at
\* most 1 launches no backfill and leaves only live processing; a larger gap
\* has missing = gap - 1; a backfill task exists only when gap > 1.
C6_GapArithmetic ==
    (GapDecided /\ K <= currentLedger) =>
        /\ gap = currentLedger - K
        /\ gap <= 1 => (outcome = "caught_up" /\ NoBackfill)
        /\ gap > 1 => missingCount = gap - 1
        /\ bpc # "none" => gap > 1

C6_Witness == GapDecided /\ gap = 1 /\ NoBackfill /\ LiveProgress

\* C7: Large-gap skip. A missing count above 1000 launches no backfill task and
\* fetches no historical ledger, the process goes on to the live loop; a missing
\* count of exactly 1000 is still backfilled.
C7_LargeGapSkip ==
    (GapDecided /\ gap > 1) =>
        /\ missingCount > smallGapThreshold =>
             (outcome = "large_gap_skipped" /\ NoBackfill /\ mpc \in {"loop", "stopped"})
        /\ (missingCount = smallGapThreshold /\ backfillStart < currentLedger) =>
             (outcome = "small_gap_backfilling" /\ bpc # "none")

C7_Witness ==
    /\ outcome = "large_gap_skipped"
    /\ missingCount = smallGapThreshold + 1
    /\ NoBackfill
    /\ LiveProgress

\* C8: Cutoff respect. backfillStart = max(checkpoint+1, start-ledger), and the
\* backfill task never fetches or processes an index below start-ledger
\* (checkpoint 50, current 200000, start-ledger 100000 gives 100000).
C8_CutoffRespect ==
    /\ (GapDecided /\ gap > 1) => backfillStart = Max(K + 1, startLedger)
    /\ (GapDecided /\ K = 50 /\ currentLedger = 200000 /\ startLedger = 100000)
          => backfillStart = 100000
    /\ \A k \in 1..Len(bfFetched) : bfFetched[k] >= startLedger
    /\ \A k \in 1..Len(bfHanded) : bfHanded[k] >= startLedger
    /\ bpc \in {"fetch", "process"} => bfI >= startLedger
    /\ pl["bf"].pc # "idle" => pl["bf"].idx >= startLedger

C8_Witness == GapDecided /\ startLedger > K + 1 /\ Len(bfHanded) > 0

\* C9: Before-cutoff case. With gap > 1, missing <= 1000 and backfillStart >=
\* current, no backfill task is launched and no ledger is fetched.
C9_BeforeCutoff ==
    ( /\ GapDecided
      /\ gap > 1
      /\ missingCount <= smallGapThreshold
      /\ backfillStart >= currentLedger )
    => (outcome = "before_cutoff" /\ NoBackfill)

C9_Witness == outcome = "before_cutoff" /\ NoBackfill /\ LiveProgress

\* C10: Backfill range. Without a cutoff clamp the range starts at checkpoint+1,
\* ends at current-1 and holds missing = current - checkpoint - 1 indices; the
\* task hands them to processLedger in that order, each once, none outside,
\* and a backfill that completes has handed over all of them.
C10_BackfillRange ==
    (bpc # "none" /\ startLedger <= K + 1) =>
        /\ backfillStart = K + 1
        /\ currentLedger - backfillStart = missingCount
        /\ missingCount = currentLedger - K - 1
        /\ \A k \in 1..Len(bfHanded) :
             bfHanded[k] = K + k /\ bfHanded[k] <= currentLedger - 1
        /\ bpc = "complete" => Len(bfHanded) = missingCount

C10_Witness == bpc = "complete" /\ startLedger <= K + 1 /\ Len(bfHanded) >= 2

Last(sq) == sq[Len(sq)]

\* C11: Backfill ordering. The backfill task fetches its ledgers in ascending
\* order with step 1 from backfillStart; every fetched ledger is handed to
\* processLedger before the next fetch, and the next fetch is for the index
\* after the last one handed over, once that processLedger call has returned.
C11_BackfillOrdering ==
    /\ \A k \in 1..Len(bfFetched) : bfFetched[k] = backfillStart + (k - 1)
    /\ \A k \in 1..(Len(bfFetched) - 1) : bfFetched[k + 1] = bfFetched[k] + 1
    /\ bfHanded = bfFetched
    /\ bpc = "fetch" => /\ bfI = backfillStart + Len(bfHanded)
                        /\ pl["bf"].pc = "idle"
    /\ bpc = "process" => /\ bfHanded # << >>
                          /\ bfI = Last(bfHanded)
                          /\ pl["bf"].idx = bfI

C11_Witness ==
    /\ bpc = "process"
    /\ Len(bfFetched) = 2
    /\ bfFetched[2] = bfFetched[1] + 1
    /\ bfFetched[1] \in checkpoints

\* C12: Bounded retry. A ledger's fetch is attempted at most MaxFetchAttempts
\* (3) times: the failed attempts of the current ledger number at most 3, a
\* further attempt is due only below 3 and only for a ledger not fetched yet,
\* the third failure ends the attempts, and a ledger that was fetched at some
\* attempt is handed over with no further attempt for it.
C12_BoundedRetry ==
    /\ retry \in 0..MaxFetchAttempts
    /\ retry = MaxFetchAttempts <=> bpc = "aborted"
    /\ bpc \in {"fetch", "aborted"} =>
          \A k \in 1..Len(bfFetched) : bfFetched[k] # bfI
    /\ bpc = "process" =>
          /\ retry + 1 <= MaxFetchAttempts
          /\ Last(bfFetched) = bfI
          /\ ~ENABLED BfFetch
    /\ \A j, k \in 1..Len(bfFetched) : bfFetched[j] = bfFetched[k] => j = k
    /\ bpc \in {"none", "connect", "connfail", "complete"} => retry = 0

C12_Witness ==
    /\ bpc = "process"
    /\ retry = MaxFetchAttempts - 1
    /\ bfFetched # << >>
    /\ Last(bfFetched) = bfI

\* what the live task can do next is not held up
LiveLoopRuns ==
    /\ (pl["live"].pc = "idle" /\ ledgerChan # << >>) => ENABLED LoopLedger
    /\ pl["live"].pc = "guard" => ENABLED PLGuard("live")
    /\ pl["live"].pc = "prev" => ENABLED PLPrev("live")
    /\ pl["live"].pc = "amm" => ENABLED PLAmm("live")
    /\ pl["live"].pc = "offer" => ENABLED PLOffer("live")
    /\ pl["live"].pc = "cancel" => ENABLED PLCancel("live")
    /\ pl["live"].pc = "save" => ENABLED PLSave("live")
    /\ pl["live"].pc = "ret" => ENABLED LoopReturn

\* C13: Retry exhaustion aborts the backfill only. After the third failed
\* fetch of ledger i the backfill task is at its end: no step of it is
\* enabled any more, it has handed over exactly the ledgers below i and no
\* processLedger call of it is running; main is in its loop (or was stopped by
\* a signal) and every step the live task is at stays enabled.
C13_ExhaustionAbortsBackfillOnly ==
    /\ retry = MaxFetchAttempts => bpc = "aborted"
    /\ bpc = "aborted" =>
          /\ ~ENABLED BfConnect
          /\ ~ENABLED BfFetch
          /\ ~ENABLED BfReturn
          /\ pl["bf"] = IdleCall
          /\ bfI = backfillStart + Len(bfHanded)
          /\ \A k \in 1..Len(bfFetched) : bfFetched[k] < bfI
          /\ \A k \in 1..Len(bfHanded) : bfHanded[k] < bfI
          /\ mpc \in {"loop", "stopped"}
          /\ mpc = "loop" => LiveLoopRuns

C13_Witness ==
    /\ bpc = "aborted"
    /\ retry = MaxFetchAttempts
    /\ Len(bfFetched) = 1
    /\ mpc = "loop"
    /\ pl["live"].pc = "save"
    /\ pl["live"].idx > currentLedger

\* where the transaction loop stands after the store call a running call is at
ExpectedAfter(call) ==
    CASE call.pc = "amm"    -> NextPos(call.idx, call.txi, "offer")
      [] call.pc = "offer"  -> NextPos(call.idx, call.txi, "cancel")
      [] call.pc = "cancel" -> NextPos(call.idx, call.txi + 1, "amm")

NumEffects(idx) == Cardinality(RequiredEffects(idx))

\* C14: Per-transaction error isolation. Inside processLedger a pool upsert, an
\* offer upsert or an offer cancel goes on to the same next step whether it
\* succeeded or failed, parser errors are passed over, and a call that runs
\* the loop has attempted every store call the ledger's transactions lead to
\* when it returns.
C14_ErrorIsolation ==
    [][ \A t \in Tasks :
          /\ (pl[t].pc \in {"amm", "offer", "cancel"} /\ pl'[t] # pl[t]) =>
                /\ pl'[t].pc = ExpectedAfter(pl[t]).pc
                /\ pl'[t].txi = ExpectedAfter(pl[t]).txi
                /\ pl'[t].idx = pl[t].idx
                /\ pl'[t].writes = pl[t].writes + 1
          /\ (pl[t].pc # "ret" /\ pl'[t].pc = "ret" /\ pl'[t].ret # "skipped") =>
                pl'[t].writes = NumEffects(pl[t].idx) + 1 ]_vars

\* a call that returned nil for a ledger whose pool upsert failed, followed by
\* an AMM parser error and an OfferCancel parse error, and whose later offer
\* upsert was applied
C14_Witness ==
    LET m == pl["live"].idx IN
    /\ pl["live"].pc = "ret"
    /\ pl["live"].ret = "nil"
    /\ ~snap.taken
    /\ m \in checkpoints
    /\ <<m, 1, "pool">> \in RequiredEffects(m) \ applied
    /\ AMMParse(LedgerTxns(m)[2], m).res = "err"
    /\ ParseOfferCancel(LedgerTxns(m)[3]).res = "err"
    /\ <<m, 4, "offer">> \in applied
    /\ offers[LedgerTxns(m)[4].key] = [status |-> "active", ledger |-> m]

\* C15: Checkpoint-last ordering. The checkpoint of a ledger is written only
\* by the step that follows the last transaction, with every store call of the
\* ledger attempted before it; a call that got past the duplicate guard returns
\* only through that step, which stays enabled while the process runs whatever
\* failed before, and returns nil exactly when the write went through.
C15_CheckpointLast ==
    [][ /\ checkpoints' # checkpoints =>
              \E t \in Tasks :
                /\ pl[t].pc = "save"
                /\ pl'[t].pc = "ret"
                /\ checkpoints' = checkpoints \cup {pl[t].idx}
        /\ \A t \in Tasks :
              /\ (pl[t].pc = "save" /\ pl'[t] # pl[t]) =>
                    /\ pl[t].txi = Len(LedgerTxns(pl[t].idx))
                    /\ pl[t].writes = NumEffects(pl[t].idx)
                    /\ pl'[t].pc = "ret"
                    /\ \/ pl'[t].ret = "nil" /\ checkpoints' = checkpoints \cup {pl[t].idx}
                       \/ pl'[t].ret = "err" /\ checkpoints' = checkpoints
              /\ (pl[t].pc # "ret" /\ pl'[t].pc = "ret" /\ pl'[t].ret # "skipped") =>
                    pl[t].pc = "save"
              /\ (pl'[t].pc = "save" /\ Alive') => (ENABLED PLSave(t))' ]_vars

C15_Witness ==
    \E t \in Tasks :
        /\ pl[t].pc = "ret"
        /\ pl[t].ret = "nil"
        /\ pl[t].idx \in checkpoints
        /\ faults > 0
        /\ \E e \in RequiredEffects(pl[t].idx) : e \notin applied

\* C16: Live-path serialization. The main loop takes a ledger from the ledger
\* channel only when no live processLedger call is running, it takes the
\* oldest one queued, deliveries only join the end of the queue, and a
\* running live call is the call for the ledger taken last: live ledgers are
\* processed one at a time in arrival order.
C16_LiveSerialized ==
    [][ /\ ledgerChan' # ledgerChan =>
              \/ /\ Len(ledgerChan') = Len(ledgerChan) + 1
                 /\ SubSeq(ledgerChan', 1, Len(ledgerChan)) = ledgerChan
                 /\ liveTaken' = liveTaken
                 /\ pl' = pl
              \/ /\ ledgerChan # << >>
                 /\ ledgerChan' = Tail(ledgerChan)
                 /\ liveTaken' = Append(liveTaken, Head(ledgerChan))
                 /\ pl["live"].pc = "idle"
                 /\ pl'["live"] = StartCall(Head(ledgerChan))
        /\ liveTaken' # liveTaken => ledgerChan' # ledgerChan
        /\ (pl["live"].pc = "idle" /\ pl'["live"].pc # "idle") => liveTaken' # liveTaken
        /\ pl["live"].pc # "idle" =>
              /\ liveTaken' = liveTaken
              /\ pl'["live"].pc # "idle" => pl'["live"].idx = pl["live"].idx
        /\ pl'["live"].pc # "idle" =>
              /\ liveTaken' # << >>
              /\ pl'["live"].idx = Last(liveTaken') ]_vars

C16_Witness ==
    /\ Len(liveTaken) = 2
    /\ liveTaken[1] + 1 = liveTaken[2]
    /\ liveTaken[1] \in checkpoints
    /\ pl["live"].pc = "save"
    /\ ledgerChan # << >>

\* the ledgers whose pool upsert for pool p the store accepted
Touching(p) ==
    { e[1] : e \in { a \in applied : a[3] = "pool" /\ LedgerTxns(a[1])[a[2]].key = p } }

\* C17: Interleaving safety of live and backfill. With per-key last-writer-wins
\* upserts, in a run without failed calls, once the backfill is complete and
\* the live loop has drained its feed, the row of every pool holds the
\* reserves written by the highest-index ledger that touched the pool.
C17_PoolHoldsNewest ==
    (faults = 0 /\ Quiescent) =>
        \A p \in PoolIds :
            Touching(p) # {} =>
                /\ pools[p].present
                /\ pools[p].ledger = SetMax(Touching(p))
                /\ pools[p].reserve = AMMParse(Tx("AMMDeposit", p, "none"),
                                               SetMax(Touching(p))).reserve

StatusChanges == {<<"absent", "active">>, <<"absent", "invalid_parse">>,
                  <<"active", "cancelled">>}

\* C19: Offer status transitions. Once an offer row exists its status changes
\* only from active to cancelled: a cancelled offer never becomes active again
\* and invalid_parse is terminal, whatever is delivered again.
C19_OfferTransitions ==
    [][ \A o \in OfferIds :
          offers'[o].status # offers[o].status =>
              <<offers[o].status, offers'[o].status>> \in StatusChanges ]_vars

\* C20: Cancel resolution. A successful CancelOffer call for an OfferCancel
\* that references offer o moves o from active to cancelled and changes no
\* other offer; with no matching active offer it changes nothing; in every
\* case the transaction loop goes on, and the call returns through the
\* checkpoint write.
C20_CancelResolution ==
    [][ \A t \in Tasks :
          (pl[t].pc = "cancel" /\ pl'[t] # pl[t]) =>
            LET o == ParseOfferCancel(LedgerTxns(pl[t].idx)[pl[t].txi]).id IN
            /\ \A q \in OfferIds \ {o} : offers'[q] = offers[q]
            /\ offers[o].status # "active" => offers'[o] = offers[o]
            /\ offers'[o] # offers[o] =>
                  /\ offers'[o].status = "cancelled"
                  /\ offers'[o].ledger = pl[t].idx
            /\ (offers[o].status = "active" /\ <<pl[t].idx, pl[t].txi, "cancel">> \in applied') =>
                  offers'[o].status = "cancelled"
            /\ pl'[t].pc = ExpectedAfter(pl[t]).pc
            /\ pl'[t].txi = ExpectedAfter(pl[t]).txi
            /\ pl'[t].pc \in {"amm", "offer", "cancel", "save"}
            /\ UNCHANGED <<checkpoints, pools>> ]_vars

\* an OfferCancel without a matching offer whose ledger got its checkpoint,
\* and an offer that a later OfferCancel moved from active to cancelled
C20_Witness ==
    /\ \E n \in checkpoints : \E k \in 1..Len(LedgerTxns(n)) :
          /\ <<n, k, "cancel">> \in applied
          /\ offers[LedgerTxns(n)[k].key].status = "absent"
    /\ \E m \in checkpoints : \E k \in 1..Len(LedgerTxns(m)) :
          /\ <<m, k, "cancel">> \in applied
          /\ offers[LedgerTxns(m)[k].key] = [status |-> "cancelled", ledger |-> m]

\* C21: Graceful shutdown. Once a shutdown signal is pending the primary loop
\* eventually terminates; the loop ends only at its select, with no live
\* processLedger call in progress, and a live call that is in flight when the
\* signal is pending keeps its ledger and runs on to its return.
C21_GracefulShutdown ==
    /\ sigPending ~> mpc = "stopped"
    /\ [][ (mpc = "loop" /\ mpc' # "loop")
            => /\ mpc' = "stopped"
               /\ sigPending
               /\ pl["live"] = IdleCall
               /\ UNCHANGED <<pl, storeVars, applied, liveTaken>> ]_vars
    /\ [][ (mpc = "loop" /\ sigPending /\ pl["live"].pc \notin {"idle", "ret"})
            => /\ mpc' = "loop"
               /\ pl'["live"].idx = pl["live"].idx
               /\ pl'["live"].pc # "idle"
               /\ (pl'["live"].pc = "ret" \/ (ENABLED processLedger)') ]_vars

\* a signal is pending while the live call is at its checkpoint write
C21_Witness ==
    /\ sigPending
    /\ mpc = "loop"
    /\ pl["live"].pc = "save"
    /\ pl["live"].idx \notin checkpoints

\* the run has done all it is going to do: main is in its loop, no backfill is
\* under way and no ledger is queued or in progress
Settled ==
    /\ mpc = "loop"
    /\ bpc \in {"none", "complete"}
    /\ ledgerChan = << >>
    /\ pl["live"].pc = "idle"
    /\ pl["bf"].pc = "idle"

\* C22: Backfill is resumable by restart. When the process exited while part of
\* its backfill range [backfillStart, currentLedger) was without checkpoints,
\* the restarted run backfills what is left of that range, also when the live
\* path has written checkpoints for newer ledgers: in a run where no fetch and
\* no store call failed, once the restarted run has settled every index the
\* earlier run left behind has a checkpoint.
C22_RestartResumesBackfill ==
    (runs > 1 /\ faults = 0 /\ Settled) => owed \subseteq checkpoints

\* C23: Steady-state errors are not fatal. Once the primary loop has been
\* entered it ends only by the shutdown signal; taking a transport error from
\* the error channel, or getting an error back from processLedger, changes
\* nothing but the log: main stays in its loop, at its select, and a queued
\* ledger can be taken next.
C23_SteadyStateNotFatal ==
    /\ [](mpc \in {"loop", "stopped"})
    /\ [][ (mpc = "loop" /\ mpc' # "loop") => (sigPending /\ mpc' = "stopped") ]_vars
    /\ [][ (mpc = "loop" /\ errPending' < errPending)
            => /\ mpc' = "loop"
               /\ UNCHANGED <<pl, ledgerChan, storeVars, applied>>
               /\ (ledgerChan # << >> => (ENABLED LoopLedger)') ]_vars
    /\ [][ (mpc = "loop" /\ pl["live"].ret = "err" /\ pl'["live"] # pl["live"])
            => /\ mpc' = "loop"
               /\ pl'["live"] = IdleCall
               /\ UNCHANGED <<ledgerChan, storeVars, applied>>
               /\ (ledgerChan # << >> => (ENABLED LoopLedger)') ]_vars

\* processLedger returned an error for the first ledger taken, and the loop
\* has since taken and checkpointed another ledger
C23_Witness ==
    /\ mpc = "loop"
    /\ Len(liveTaken) = 2
    /\ liveTaken[1] # liveTaken[2]
    /\ liveTaken[1] \notin checkpoints
    /\ lastDelivered \in checkpoints
    /\ pl["live"].idx = liveTaken[2]
    /\ pl["live"].ret = "nil"

StartupPcs == {"opendb", "getcp", "connect", "serverinfo", "subscribe"}

\* C24: Startup failures are fatal. At each startup step (DB URL and DB
\* connect, last checkpoint, upstream Connect, GetServerInfo, Subscribe) the
\* failure ends the process; a process ended that way never entered the
\* primary loop, ran no gap classification, launched no backfill task,
\* processed no ledger and wrote no checkpoint, and it takes no further step.
C24_StartupFailuresFatal ==
    /\ mpc \in StartupPcs => ENABLED (Next /\ mpc' = "fatal")
    /\ mpc = "fatal" =>
         /\ gapRuns = 0
         /\ outcome = "undecided"
         /\ NoBackfill
         /\ liveTaken = << >>
         /\ pl = [t \in Tasks |-> IdleCall]
         /\ \E sc \in Scenarios :
              /\ checkpoints = sc.cps
              /\ applied = UNION { RequiredEffects(n) : n \in sc.cps }
         /\ pools = [p \in PoolIds |-> NoPool]
         /\ offers = [o \in OfferIds |-> NoOffer]
         /\ ~ENABLED Next

\* Subscribe failed after the checkpoint and the validated ledger were read
C24_Witness ==
    /\ mpc = "fatal"
    /\ checkpoint.found
    /\ currentLedger > checkpoint.LedgerIndex + 1
    /\ ~subscribed

Outcomes == {"no_checkpoint", "caught_up", "large_gap_skipped", "before_cutoff",
             "small_gap_backfilling"}

\* C25: Startup state machine. The gap classification runs exactly once per
\* process run, before the primary loop, and selects exactly one of the five
\* outcomes; with no checkpoint the gap logic is skipped and no backfill is
\* launched; a backfill task exists only for the small-gap outcome, there is
\* at most one, and once it has completed or aborted no step of a backfill is
\* enabled any more and the classification cannot run again.
C25_StartupStateMachine ==
    /\ gapRuns \in {0, 1}
    /\ gapRuns = 1 <=> mpc \in {"loop", "stopped"}
    /\ gapRuns = 0 => (outcome = "undecided" /\ NoBackfill)
    /\ gapRuns = 1 =>
         /\ outcome \in Outcomes
         /\ outcome = "no_checkpoint" <=> ~checkpoint.found
         /\ outcome = "small_gap_backfilling" <=> bpc # "none"
         /\ bpc = "none" => NoBackfill
         /\ ~ENABLED MainGapCheck
    /\ (gapRuns = 1 /\ ~checkpoint.found) =>
         (gap = 0 /\ missingCount = 0 /\ backfillStart = 0 /\ NoBackfill)
    /\ Len(bfHanded) <= Max(0, currentLedger - backfillStart)
    /\ bpc \in {"complete", "aborted", "connfail"} =>
         /\ pl["bf"] = IdleCall
         /\ ~ENABLED BfConnect
         /\ ~ENABLED BfFetch
         /\ ~ENABLED BfReturn

\* the one backfill task has completed its range and the live loop has since
\* checkpointed a ledger
C25_Witness ==
    /\ mpc = "loop"
    /\ gapRuns = 1
    /\ bpc = "complete"
    /\ Len(bfHanded) = currentLedger - backfillStart
    /\ Len(bfHanded) >= 2
    /\ lastDelivered > currentLedger
    /\ lastDelivered \in checkpoints

\* number of ledgers the live loop has taken and run to the return of processLedger
Completed ==
    IF pl["live"].pc \in {"idle", "ret"} THEN Len(liveTaken) ELSE Len(liveTaken) - 1

\* the pairs an AMMCreate of the ledgers S sets up
CreatedPairs(S) ==
    UNION { { LedgerTxns(i)[j].key :
                j \in { k \in DOMAIN LedgerTxns(i) :
                          /\ LedgerTxns(i)[k].TransactionType = "AMMCreate"
                          /\ AMMParse(LedgerTxns(i)[k], i).res = "pool" } } : i \in S }

\* C26: End-to-end live scenario. With no prior checkpoint and the live feed
\* delivering ledgers 100..105 in order, while no store call fails the
\* checkpoints written are at every moment the ledgers 100..n processed so
\* far (so they are written in ascending order, none skipped, none outside
\* the range), they are exactly 100..105 once the feed is drained, and every
\* pair an AMMCreate of a checkpointed ledger sets up has its one pool row.
C26_EndToEndLive ==
    faults = 0 =>
        /\ liveTaken = [k \in 1..Len(liveTaken) |-> E2EFirst + k - 1]
        /\ checkpoints = E2EFirst..(E2EFirst + Completed - 1)
        /\ (nclosed = E2ELast - E2EFirst + 1 /\ ledgerChan = << >> /\ pl["live"].pc = "idle")
             => checkpoints = E2ELedgers
        /\ \A p \in CreatedPairs(checkpoints) :
             /\ pools[p].present
             /\ \E e \in applied :
                  /\ e[3] = "pool"
                  /\ e[1] = pools[p].ledger
                  /\ LedgerTxns(e[1])[e[2]].key = p

\* the feed is drained: all six ledgers are checkpointed and the pair created
\* in ledger 101 has its row
C26_Witness ==
    /\ faults = 0
    /\ nclosed = E2ELast - E2EFirst + 1
    /\ ledgerChan = << >>
    /\ pl["live"].pc = "idle"
    /\ checkpoints = E2ELedgers
    /\ CreatedPairs(checkpoints) = {"p1"}
    /\ pools["p1"].present

\* C27: Documented crash recovery. On a restart that finds a gap between the
\* last checkpoint and the current validated ledger the indexer only logs the
\* gap and resumes from the current ledger: no ledger of the gap is ever
\* fetched or handed to processLedger.
C27_NeverBackfills ==
    (GapDecided /\ HasGap(Gap(currentLedger, K))) =>
        /\ bfFetched = << >>
        /\ bfHanded = << >>
        /\ pl["bf"] = IdleCall
        /\ \A n \in (K + 1)..(currentLedger - 1) : n \notin checkpoints

\* C28: Checkpoints are never deleted. Across any sequence of live and
\* backfill operations every index that had a checkpoint at startup or was
\* given one by a SaveCheckpoint that succeeded has its checkpoint in every
\* later state, and a call that returned nil leaves its ledger checkpointed.
C28_CheckpointsNeverDeleted ==
    /\ everSaved \subseteq checkpoints
    /\ checkpoint.found => checkpoint.LedgerIndex \in checkpoints
    /\ \A t \in Tasks : pl[t].ret = "nil" => pl[t].idx \in checkpoints

\* the checkpoint of the earlier run, one written by the backfill and one
\* written by the live loop are all in the store
C28_Witness ==
    /\ GapDecided
    /\ bpc = "complete"
    /\ Len(bfHanded) >= 1
    /\ lastDelivered > currentLedger
    /\ {K, bfHanded[1], lastDelivered} \subseteq checkpoints
    /\ Cardinality(checkpoints) >= 3

C30_NoHolesInBackfill ==
    bpc \in {"fetch", "process", "complete", "aborted"} =>
        \A i \in backfillStart..(bfI - 1) : i \in checkpoints

\* C31: The continuity check is non-blocking. processLedger for index N enters
\* the transaction loop and attempts every store call of the ledger and the
\* write of checkpoint N whether or not a checkpoint for N-1 exists and whether
\* or not the lookup of N-1 fails; the lookup itself changes nothing in the
\* store, and a call that returned nil has its checkpoint.
C31_ContinuityNonBlocking ==
    /\ [][ \A t \in Tasks :
              (pl[t].pc = "prev" /\ pl'[t] # pl[t]) =>
                  /\ pl'[t] = Goto(pl[t], FirstPos(pl[t].idx))
                  /\ UNCHANGED <<storeVars, applied>> ]_vars
    /\ [](\A t \in Tasks :
             /\ pl[t].pc = "prev" => ENABLED PLPrev(t)
             /\ (pl[t].pc = "ret" /\ pl[t].ret # "skipped") =>
                  pl[t].writes = Cardinality(RequiredEffects(pl[t].idx)) + 1
             /\ pl[t].ret = "nil" => pl[t].idx \in checkpoints)

\* ledger 100 got its checkpoint although ledger 99 has none, and ledger 101 has
\* been processed to its checkpoint although the one failed store call of the
\* run was its lookup of ledger 100
C31_Witness ==
    /\ pl["live"].pc = "ret"
    /\ pl["live"].ret = "nil"
    /\ pl["live"].idx = E2EFirst + 1
    /\ pl["live"].lookupOk
    /\ checkpoints = {E2EFirst, E2EFirst + 1}
    /\ RequiredEffects(E2EFirst + 1) # {}
    /\ RequiredEffects(E2EFirst + 1) \subseteq applied
    /\ liveTaken = << E2EFirst, E2EFirst + 1 >>
    /\ faults = 1

\* a ledger none of whose transactions is of a DEX type
NonDex(idx) ==
    \A k \in 1..Len(LedgerTxns(idx)) :
        LedgerTxns(idx)[k].TransactionType \notin AMMTypes \cup {"OfferCreate", "OfferCancel"}

\* C32: Non-DEX transactions are discarded. A call of processLedger for a ledger
\* whose transactions are all of non-DEX types makes no pool, offer or cancel
\* call: no step of it changes the pool or the offer table, its only store
\* write is the checkpoint, and the step that returns nil adds the checkpoint
\* of that ledger's index and no other.
C32_NonDexDiscarded ==
    /\ [](\A t \in Tasks :
             (pl[t].pc # "idle" /\ NonDex(pl[t].idx)) =>
                 /\ pl[t].pc \in {"guard", "prev", "save", "ret"}
                 /\ \A e \in applied : e[1] # pl[t].idx
                 /\ (pl[t].pc = "ret" /\ pl[t].ret # "skipped") => pl[t].writes = 1
                 /\ pl[t].ret = "nil" => pl[t].idx \in checkpoints)
    /\ [][ \A t \in Tasks :
              (pl[t].pc \notin {"idle", "ret"} /\ NonDex(pl[t].idx) /\ pl'[t] # pl[t]) =>
                  /\ UNCHANGED <<pools, offers, applied>>
                  /\ IF pl'[t].ret = "nil"
                     THEN checkpoints' = checkpoints \cup {pl[t].idx}
                     ELSE UNCHANGED checkpoints ]_vars

\* ledger 105, a single Payment, has been processed against tables that hold
\* the pool and the offers of the ledgers before it: it got its checkpoint
C32_Witness ==
    /\ pl["live"].pc = "ret"
    /\ pl["live"].ret = "nil"
    /\ NonDex(pl["live"].idx)
    /\ pl["live"].idx = E2ELast
    /\ checkpoints = E2ELedgers
    /\ pools["p1"].present
    /\ \E o \in OfferIds : offers[o].status # "absent"

\* transaction k of ledger idx is an OfferCreate whose numeric fields do not decode
InvalidOfferAt(idx, k) ==
    /\ k \in 1..Len(LedgerTxns(idx))
    /\ LedgerTxns(idx)[k].TransactionType = "OfferCreate"
    /\ LedgerTxns(idx)[k].flaw = "nonnumeric"

\* C33: Invalid offers are retained. An OfferCreate whose numeric fields fail
\* to decode is handed to UpsertOffer like any other offer: the upsert that
\* succeeds leaves a row with status invalid_parse under the offer's key, the
\* call goes on from there to its checkpoint write, and a call that ran
\* without a store failure ends with the row stored and the ledger checkpointed.
C33_InvalidOffersRetained ==
    /\ [](\A t \in Tasks : \A k \in 1..Len(LedgerTxns(pl[t].idx)) :
             (pl[t].pc # "idle" /\ InvalidOfferAt(pl[t].idx, k)) =>
                 /\ (pl[t].pc = "ret" /\ pl[t].ret # "skipped") =>
                      pl[t].writes = Cardinality(RequiredEffects(pl[t].idx)) + 1
                 /\ (pl[t].ret = "nil" /\ faults = 0) =>
                      /\ <<pl[t].idx, k, "offer">> \in applied
                      /\ pl[t].idx \in checkpoints)
    /\ [](\A e \in applied :
             (e[3] = "offer" /\ InvalidOfferAt(e[1], e[2])) =>
                 offers[LedgerTxns(e[1])[e[2]].key].status = "invalid_parse")
    /\ [][ \A t \in Tasks :
              (pl[t].pc = "offer" /\ InvalidOfferAt(pl[t].idx, pl[t].txi) /\ pl'[t] # pl[t]) =>
                  /\ pl'[t].pc \in {"amm", "offer", "cancel", "save"}
                  /\ faults' = faults =>
                       /\ <<pl[t].idx, pl[t].txi, "offer">> \in applied'
                       /\ offers' = [offers EXCEPT ![LedgerTxns(pl[t].idx)[pl[t].txi].key] =
                                       [status |-> "invalid_parse", ledger |-> pl[t].idx]] ]_vars

\* ledger 103 has been processed to its checkpoint and its offer o2, whose
\* amount does not decode, is in the offer table with status invalid_parse
C33_Witness ==
    /\ pl["live"].pc = "ret"
    /\ pl["live"].ret = "nil"
    /\ InvalidOfferAt(pl["live"].idx, 3)
    /\ <<pl["live"].idx, 3, "offer">> \in applied
    /\ offers["o2"] = [status |-> "invalid_parse", ledger |-> pl["live"].idx]
    /\ pl["live"].idx \in checkpoints

\* C34: Unsigned gap wrap-around. When the node's current validated ledger is
\* below the last checkpoint, gap = current - checkpoint is taken on unsigned
\* integers and wraps modulo the word size (Uint64Modulus): gap = modulus -
\* (checkpoint - current) > 1 and missing = gap - 1 > 1000, so the run is
\* classified large_gap_skipped and no backfill is launched.
C34_UnsignedWrap ==
    (GapDecided /\ currentLedger < K) =>
        /\ gap = Uint64Modulus - (K - currentLedger)
        /\ gap > 1
        /\ missingCount = gap - 1
        /\ missingCount > smallGapThreshold
        /\ outcome = "large_gap_skipped"
        /\ NoBackfill

\* the node reported ledger 999 against checkpoint 1000 and main went on to
\* its processing loop
C34_Witness ==
    /\ GapDecided
    /\ currentLedger = K - 1
    /\ outcome = "large_gap_skipped"
    /\ mpc = "loop"

\* the ledgers left for a backfill once -start-ledger has clamped its start
EligibleRange == currentLedger - backfillStart

\* C35: The threshold is applied before the cutoff clamp. The large-gap test
\* compares missing = current - checkpoint - 1 with 1000 and not the clamped
\* range current - backfillStart: the run is classified large_gap_skipped
\* exactly when missing > 1000, and then no backfill is launched even when the
\* clamp leaves 1000 ledgers or fewer to fetch.
C35_ThresholdBeforeClamp ==
    (GapDecided /\ gap > 1) =>
        /\ outcome = "large_gap_skipped" <=> missingCount > smallGapThreshold
        /\ (missingCount > smallGapThreshold /\ backfillStart < currentLedger
               /\ EligibleRange <= smallGapThreshold) =>
             /\ backfillStart = startLedger
             /\ bpc = "none"
             /\ NoBackfill

\* 1001 ledgers are missing and -start-ledger leaves two of them to fetch: the
\* run is classified large_gap_skipped and main is in its processing loop
C35_Witness ==
    /\ GapDecided
    /\ missingCount = smallGapThreshold + 1
    /\ backfillStart = startLedger
    /\ backfillStart < currentLedger
    /\ EligibleRange = 2
    /\ outcome = "large_gap_skipped"
    /\ NoBackfill
    /\ mpc = "loop"

\* C36: Live and backfill index sets are disjoint. The live feed delivers only
\* ledgers that close after Subscribe, which follows the reading of the current
\* validated ledger: every index the live loop takes is above currentLedger,
\* every index the backfill hands to processLedger is in
\* backfillStart..currentLedger - 1, and so the two tasks are never inside
\* processLedger for the same index.
C36_DisjointIndexSets ==
    /\ \A k \in 1..Len(liveTaken) : liveTaken[k] > currentLedger
    /\ \A k \in 1..Len(ledgerChan) : ledgerChan[k] > currentLedger
    /\ pl["live"].pc # "idle" => pl["live"].idx > currentLedger
    /\ \A k \in 1..Len(bfHanded) :
          bfHanded[k] >= backfillStart /\ bfHanded[k] < currentLedger
    /\ pl["bf"].pc # "idle" =>
          (pl["bf"].idx >= backfillStart /\ pl["bf"].idx < currentLedger)
    /\ (pl["live"].pc # "idle" /\ pl["bf"].pc # "idle") => pl["live"].idx # pl["bf"].idx

\* both tasks are past the duplicate guard at the same time, the backfill on a
\* ledger below and the live loop on a ledger above the current ledger
C36_Witness ==
    /\ pl["live"].pc \notin {"idle", "guard", "ret"}
    /\ pl["bf"].pc \notin {"idle", "guard", "ret"}
    /\ pl["bf"].idx < currentLedger
    /\ pl["live"].idx > currentLedger

\* C37: The duplicate guard fails open. A call of processLedger whose
\* checkpoint lookup returned an error is not skipped: it goes on to the
\* continuity check and the transaction loop, makes every store call of its
\* ledger and attempts the checkpoint write, whether or not a checkpoint for
\* the index exists.
C37_GuardFailsOpen ==
    /\ [](\A t \in Tasks :
             (pl[t].pc # "idle" /\ ~pl[t].lookupOk) =>
                 /\ pl[t].ret # "skipped"
                 /\ pl[t].pc = "ret" =>
                      pl[t].writes = Cardinality(RequiredEffects(pl[t].idx)) + 1)
    /\ [][ \A t \in Tasks :
              (pl[t].pc = "guard" /\ pl'[t] # pl[t] /\ faults' > faults) =>
                  /\ ~pl'[t].lookupOk
                  /\ pl'[t].pc = IF pl[t].idx > 1 THEN "prev" ELSE FirstPos(pl[t].idx).pc
                  /\ UNCHANGED <<storeVars, applied>> ]_vars

\* ledger 1001 was processed to its checkpoint, delivered again, and the second
\* call, whose lookup failed, applied its effects again and wrote the checkpoint
C37_Witness ==
    /\ Len(liveTaken) = 2
    /\ liveTaken[1] = liveTaken[2]
    /\ pl["live"].pc = "ret"
    /\ pl["live"].idx = liveTaken[2]
    /\ ~pl["live"].lookupOk
    /\ pl["live"].ret = "nil"
    /\ faults = 1
    /\ RequiredEffects(pl["live"].idx) # {}
    /\ RequiredEffects(pl["live"].idx) \subseteq appliedAgain
    /\ pl["live"].idx \in checkpoints

\* no index occurs twice in the sequence
NoRepeat(seq) == \A j, k \in 1..Len(seq) : seq[j] = seq[k] => j = k

\* C38: Checkpoint write failure. processLedger returns an error if and only
\* if the checkpoint write failed: a call that was not skipped has made every
\* store call of its ledger and the checkpoint write, returns nil with its
\* checkpoint stored and an error otherwise, whatever the parsers and upserts
\* did. After the error the effects applied before the write stay applied and
\* the ledger has no checkpoint (a call whose guard lookup failed may have met
\* one that was there before: the failed write adds none). No loop hands the
\* ledger to processLedger a second time: the backfill goes on with the next
\* index and the live loop with the next ledger of the feed.
C38_CheckpointWriteFailure ==
    /\ \A t \in Tasks :
          /\ pl[t].ret # "none" => pl[t].pc = "ret"
          /\ (pl[t].pc = "ret" /\ pl[t].ret # "skipped") =>
               /\ pl[t].ret \in {"nil", "err"}
               /\ pl[t].writes = Cardinality(RequiredEffects(pl[t].idx)) + 1
          /\ pl[t].ret = "nil" =>
               (pl[t].idx \in everSaved /\ pl[t].idx \in checkpoints)
          /\ pl[t].ret = "err" =>
               /\ pl[t].lookupOk => pl[t].idx \notin checkpoints \cup everSaved
               /\ (faults = 1 /\ pl[t].lookupOk) => RequiredEffects(pl[t].idx) \subseteq applied
    /\ NoRepeat(bfHanded)
    /\ NoRepeat(liveTaken)
    /\ \A i \in 1..Len(bfHanded) : \A j \in 1..Len(liveTaken) : bfHanded[i] # liveTaken[j]
    /\ bpc \in {"fetch", "complete"} => Len(bfHanded) = bfI - backfillStart

\* the backfill is complete and the feed drained; the checkpoint write of one
\* backfilled ledger failed: its effects are in the tables, it has no
\* checkpoint, and the ledgers after it were processed
C38_Witness ==
    /\ Quiescent
    /\ faults = 1
    /\ \E k \in 1..Len(bfHanded) :
          /\ k < Len(bfHanded)
          /\ bfHanded[k] \notin checkpoints
          /\ RequiredEffects(bfHanded[k]) # {}
          /\ RequiredEffects(bfHanded[k]) \subseteq applied
          /\ bfHanded[k + 1] \in checkpoints

----------------------------------------------------------------------------
(* The backfill goroutine from its launch to its end (main.go 124-201), next
   to the live loop, in a process that is not shut down *)

\* the earliest ledger to index: below the checkpoint, or inside the gap
BackfillStarts == {1, BaseCheckpoint + 2}

\* main has subscribed and is about to classify the gap between checkpoint
\* BaseCheckpoint and the current validated ledger
InitBackfill ==
    /\ mpc = "gap"
    /\ subscribed = TRUE
    /\ ledgerChan = << >>
    /\ lastDelivered = 0
    /\ errPending = 0
    /\ sigPending = FALSE
    /\ nclosed = 0
    /\ head = BaseCheckpoint + MaxGap
    /\ startLedger \in BackfillStarts
    /\ checkpoint = GetLastCheckpoint({BaseCheckpoint})
    /\ currentLedger = head
    /\ gap = 0
    /\ missingCount = 0
    /\ outcome = "undecided"
    /\ gapRuns = 0
    /\ backfillStart = 0
    /\ bpc = "none"
    /\ bfI = 0
    /\ retry = 0
    /\ bfFetched = << >>
    /\ bfHanded = << >>
    /\ pl = [t \in Tasks |-> IdleCall]
    /\ checkpoints = {BaseCheckpoint}
    /\ pools = [p \in PoolIds |-> NoPool]
    /\ offers = [o \in OfferIds |-> NoOffer]
    /\ applied = RequiredEffects(BaseCheckpoint)
    /\ faults = 0
    /\ snap = NoSnap
    /\ liveTaken = << >>
    /\ appliedAgain = {}
    /\ everSaved = checkpoints
    /\ runs = 1
    /\ owed = {}
    /\ audit = NoAudit
    /\ sd = NoStall

\* processLedger as called by the backfill loop (183)
BfProcessLedger ==
    \/ PLGuard("bf")
    \/ PLPrev("bf")
    \/ PLAmm("bf")
    \/ PLOffer("bf")
    \/ PLCancel("bf")
    \/ PLSave("bf")

NextBackfill ==
    \/ CloseLedger
    \/ MainGapCheck
    \/ BfConnect
    \/ BfFetch
    \/ BfReturn
    \/ LoopLedger
    \/ LoopReturn
    \/ processLedger

SpecBackfill == InitBackfill /\ [][NextBackfill]_vars

\* Scheduling: main goes on to the classification, the goroutine is scheduled,
\* and every fetch and store call returns, so each of its steps is taken once
\* it is enabled.
SpecBackfillFair ==
    /\ SpecBackfill
    /\ WF_vars(MainGapCheck)
    /\ WF_vars(BfConnect)
    /\ WF_vars(BfFetch)
    /\ WF_vars(BfReturn)
    /\ WF_vars(BfProcessLedger)

\* the final states of the goroutine: the loop ran to its end, a ledger could
\* not be fetched, or the backfill client could not connect
BackfillFinal == {"complete", "aborted", "connfail"}

\* fetch attempts the goroutine can still make: MaxFetchAttempts for every
\* index from bfI to currentLedger - 1, less those already made for bfI
AttemptsLeft ==
    MaxFetchAttempts * (currentLedger - bfI) - retry - (IF bpc = "process" THEN 1 ELSE 0)

\* C39: Backfill terminates. A launched backfill task, every fetch and store
\* call of which returns, reaches a final state (complete, or aborted at a
\* ledger or at the connect). It makes at most 3 x (currentLedger -
\* backfillStart) fetch attempts: the attempts left start at that number,
\* every attempt takes at least one away, no step adds one and the number
\* never falls below zero. The bound is fixed at launch: currentLedger and
\* backfillStart do not change while the node's ledger index goes up.
C39_BackfillTerminates ==
    /\ (bpc \notin {"none"} \cup BackfillFinal) ~> (bpc \in BackfillFinal)
    /\ [][ (bpc \in BackfillFinal) => (bpc' = bpc) ]_vars
    /\ [](bpc \in {"fetch", "process"} =>
             /\ AttemptsLeft >= 0
             /\ AttemptsLeft <= MaxFetchAttempts * (currentLedger - backfillStart)
             /\ bfI >= backfillStart
             /\ bfI < currentLedger)
    /\ [][ (bpc = "connect" /\ bpc' = "fetch") =>
              AttemptsLeft' = MaxFetchAttempts * (currentLedger - backfillStart) ]_vars
    /\ [][ (bpc = "fetch" /\ <<bpc, retry>>' # <<bpc, retry>> /\ bpc' \notin BackfillFinal) =>
              AttemptsLeft' < AttemptsLeft ]_vars
    /\ [][ (bpc \in {"fetch", "process"} /\ bpc' \notin BackfillFinal) =>
              AttemptsLeft' <= AttemptsLeft ]_vars
    /\ [][ (bpc # "none") => UNCHANGED <<currentLedger, backfillStart>> ]_vars

\* the node has validated a newer ledger since the launch and the backfill has
\* run to its end at currentLedger - 1, every ledger of its range checkpointed
C39_Witness ==
    /\ bpc = "complete"
    /\ head > currentLedger
    /\ bfI = currentLedger
    /\ Len(bfFetched) = currentLedger - backfillStart
    /\ Len(bfFetched) >= 2
    /\ {BaseCheckpoint} \cup (backfillStart..(currentLedger - 1)) \subseteq checkpoints

----------------------------------------------------------------------------
(* infra/data-services/scripts/stall_detector.sh: polls the validated ledger
   sequence of rippled every INTERVAL seconds for DUR seconds *)

\* the accumulated stall time is kept when the sequence advances
AccumulateNoReset(stalled, stalledFor, interval) ==
    IF stalled THEN stalledFor + interval ELSE stalledFor

\* stalled_for=$((stalled_for + INTERVAL)) ... else stalled_for=0 (49, 57)
Accumulate(stalled, stalledFor, interval) ==
    IF stalled THEN stalledFor + interval ELSE 0

\* if [[ "$last_seq" -ge 0 && "$seq" -le "$last_seq" ]] (48)
NotAdvanced(lastSeq, seq) == lastSeq >= 0 /\ seq <= lastSeq

\* if (( stalled_for >= STALL_SECONDS )) (50)
StallReached(stalledFor, stallSeconds) == stalledFor >= stallSeconds

\* end=$((SECONDS + DUR)); last_seq=-1; stalled_for=0 (13-15), for the values
\* of DUR, INTERVAL and STALL_SECONDS the environment sets
InitStall ==
    /\ InitCommon
    /\ mpc = "opendb"
    /\ subscribed = FALSE
    /\ ledgerChan = << >>
    /\ lastDelivered = 0
    /\ head = BaseCheckpoint
    /\ startLedger = 1
    /\ checkpoints = {}
    /\ applied = {}
    /\ pools = [p \in PoolIds |-> NoPool]
    /\ offers = [o \in OfferIds |-> NoOffer]
    /\ everSaved = {}
    /\ audit = NoAudit
    /\ sd \in { [NoStall EXCEPT !.pc = "test", !.dur = d, !.interval = i,
                                !.stallSeconds = st, !.end = d] :
                 d \in 0..MaxDur, i \in 1..MaxInterval, st \in 1..MaxStall }

\* while (( SECONDS < end )) ... done; echo "RESULT: OK ..." (36, 64)
SdLoopTest ==
    /\ sd.pc = "test"
    /\ sd' = IF sd.now < sd.end
             THEN [sd EXCEPT !.pc = "poll"]
             ELSE [sd EXCEPT !.pc = "done", !.result = "OK", !.exit = 0]
    /\ UNCHANGED <<programVars, audit>>

\* si="$(docker exec ...)" || { echo "ERROR ..."; exit 3; }; seq="$(get_seq "$si")";
\* the stall test (37-58). The call takes t seconds and the node reports seq.
SdPoll ==
    /\ sd.pc = "poll"
    /\ \E ok \in BOOLEAN, seq \in 0..MaxSeq, t \in 0..MaxRpcSeconds :
         IF ~ok
         THEN sd' = [sd EXCEPT !.pc = "done", !.result = "ERROR", !.exit = 3,
                               !.now = @ + t, !.rpcFailed = TRUE]
         ELSE LET acc == Accumulate(NotAdvanced(sd.lastSeq, seq), sd.stalledFor,
                                    sd.interval)
                  hit == NotAdvanced(sd.lastSeq, seq) /\ StallReached(acc, sd.stallSeconds)
              IN sd' = [sd EXCEPT !.pc = IF hit THEN "done" ELSE "sleep",
                                  !.result = IF hit THEN "STALLED" ELSE @,
                                  !.exit = IF hit THEN 2 ELSE @,
                                  !.now = @ + t,
                                  !.seq = seq,
                                  !.stalledFor = acc,
                                  !.polls = @ + 1,
                                  !.flat = IF sd.polls > 0 /\ seq <= sd.lastSeq
                                           THEN @ + 1 ELSE 0,
                                  !.rose = sd.polls > 0 /\ seq > sd.lastSeq]
    /\ UNCHANGED <<programVars, audit>>

\* last_seq="$seq"; sleep "$INTERVAL" (60-61)
SdSleep ==
    /\ sd.pc = "sleep"
    /\ sd' = [sd EXCEPT !.pc = "test", !.lastSeq = sd.seq, !.now = @ + sd.interval]
    /\ UNCHANGED <<programVars, audit>>

NextStall ==
    \/ SdLoopTest
    \/ SdPoll
    \/ SdSleep

SpecStall == InitStall /\ [][NextStall]_vars

\* C40: Stall detector. The script reports STALLED (exit 2) only when the
\* validated ledger sequence failed to advance over consecutive polls whose
\* accumulated interval reaches STALL_SECONDS; a poll that sees a strictly
\* higher sequence resets the accumulated stall time to 0; the first poll never
\* counts as stalled; and a run that ends without such a stall has lasted DUR
\* seconds and reports OK.
C40_StallDetector ==
    /\ sd.result = "STALLED" =>
         /\ sd.exit = 2
         /\ sd.flat >= 1
         /\ sd.flat * sd.interval >= sd.stallSeconds
    /\ (sd.pc = "sleep" /\ sd.rose) => sd.stalledFor = 0
    /\ sd.polls = 1 => (sd.stalledFor = 0 /\ sd.result # "STALLED")
    /\ (sd.pc = "done" /\ sd.result # "STALLED") =>
         (sd.result = "OK" /\ sd.exit = 0 /\ sd.now >= sd.end)

\* C40 as amended: as above, but a run also ends when a server_info call
\* fails; it then reports ERROR (exit 3), whatever time is left. A run reports
\* OK exactly when DUR has elapsed with no such stall and no failed call. The
\* accumulated stall time is INTERVAL times the number of consecutive polls
\* that did not see the sequence advance.
C40_StallDetectorAmended ==
    /\ sd.result = "STALLED" =>
         /\ sd.exit = 2
         /\ sd.flat >= 1
         /\ sd.flat * sd.interval >= sd.stallSeconds
    /\ sd.pc \in {"sleep", "test", "done"} => sd.stalledFor = sd.flat * sd.interval
    /\ (sd.pc = "sleep" /\ sd.rose) => sd.stalledFor = 0
    /\ sd.polls = 1 => (sd.stalledFor = 0 /\ sd.result # "STALLED")
    /\ sd.pc = "done" <=> sd.result # "none"
    /\ sd.result = "ERROR" <=> sd.rpcFailed
    /\ sd.result = "ERROR" => sd.exit = 3
    /\ sd.result = "OK" =>
         /\ sd.exit = 0
         /\ sd.now >= sd.end
         /\ sd.stalledFor < sd.stallSeconds

\* the sequence rose at the second poll, then stood still for two polls of
\* one second against STALL_SECONDS = 2: the fourth poll reports STALLED
C40_Witness ==
    /\ sd.result = "STALLED"
    /\ sd.exit = 2
    /\ sd.polls = 4
    /\ sd.flat = 2
    /\ sd.interval = 1
    /\ sd.stallSeconds = 2
    /\ sd.stalledFor = 2

====
